---------------------------- MODULE Spec2Model ----------------------------
(***************************************************************************)
(* A model of smrlib.structured_logger: LogItem formatting,                *)
(* StructuredLogger dispatch and lifecycle, LoggerContext; and of          *)
(* smrlib.secret_core: SecretCore over DotEnvStorage.                      *)
(*                                                                         *)
(* Conventions.                                                            *)
(*  - Python strings are TLA+ strings, built with \o as the f-strings      *)
(*    build them.  Non-ASCII glyphs and colorama escape codes are          *)
(*    written as ASCII tokens ("<check>", "<GREEN>", "<RESET>").           *)
(*  - A Python value is a record [t, i, s, kv]: t is its type tag, i its   *)
(*    integer payload, s its string payload, kv its (key, value) pairs.    *)
(*  - None for a path or a name is the string "None" (NoPath, NoName).     *)
(*  - User input (input(), getpass()) is a sequence of one-character       *)
(*    strings, so that strip(), lower() and len() are computed.            *)
(*  - The stdlib logging module is modelled as far as the code uses it:    *)
(*    one channel per name holding its handler list, a handler writing     *)
(*    "%(asctime)s, %(message)s" lines to its file.                        *)
(***************************************************************************)
EXTENDS Integers, Sequences, FiniteSets, TLC

(***************************************************************************)
(* Bounds of the model.                                                    *)
(***************************************************************************)
MaxLoggers == 2      \* StructuredLogger instances ever constructed
MaxRecords == 2      \* records in a log file before writers stop
MaxResp == 3         \* characters of an interactive response
MaxItems == 2        \* rows of a summary table
MaxLogItems == 2     \* LogItem objects user code holds
MaxEntries == 2      \* entries of a context mapping
MaxAskRecords == 4   \* records in a log file before interactive calls stop
MaxBackups == 2      \* largest log_file_backup_count configured

LoggerIds == 1..MaxLoggers
ItemIds == 1..MaxLogItems

(***************************************************************************)
(* Program constants.                                                      *)
(***************************************************************************)
SUCCESS == 0
ERROR == 1
WARNING == 5
INFO == 10
NOTICE == 15
DEBUG == 100
LogLevel == {SUCCESS, ERROR, WARNING, INFO, NOTICE, DEBUG}

logging_DEBUG == 10
logging_INFO == 20
logging_WARNING == 30
logging_ERROR == 40

DebugThreshold == 100
SeparatorWidth == 50
DividerWidth == 44
LabelWidth == 9
ValueWidth == 3

NoPath == "None"
NoName == "None"
DefaultName == "filetoolkit"
DryRunPrefix == "[DRY-RUN] "
Reset == "<RESET>"
AscTime == "<asctime>"

(***************************************************************************)
(* Python values.                                                          *)
(***************************************************************************)
NoneVal == [t |-> "none", i |-> 0, s |-> "", kv |-> <<>>]
StrVal(x) == [t |-> "str", i |-> 0, s |-> x, kv |-> <<>>]
IntVal(n) == [t |-> "int", i |-> n, s |-> "", kv |-> <<>>]
BoolVal(b) == [t |-> "bool", i |-> IF b THEN 1 ELSE 0, s |-> "", kv |-> <<>>]
DictVal(pairs) == [t |-> "dict", i |-> 0, s |-> "", kv |-> pairs]
PathVal(p) == IF p = NoPath THEN NoneVal ELSE StrVal(p)
\* a float, held by its str() form
FloatVal(x) == [t |-> "float", i |-> 0, s |-> x, kv |-> <<>>]
\* an iterable that is no dict: iterating and unpacking it gives the pairs,
\* or fails with the exception exc ("" when it does not fail)
IterVal(pairs, exc) == [t |-> "iter", i |-> 0, s |-> exc, kv |-> pairs]
\* an iterator over pairs (zip, generator): it can be read once
OneShotVal(pairs) == [t |-> "iter", i |-> 1, s |-> "", kv |-> pairs]
\* an object that is neither a scalar nor iterable
ObjectVal == [t |-> "object", i |-> 0, s |-> "", kv |-> <<>>]

RECURSIVE Repeat(_, _)
Repeat(c, n) == IF n <= 0 THEN "" ELSE c \o Repeat(c, n - 1)

RECURSIVE JoinChars(_)
JoinChars(cs) == IF cs = <<>> THEN "" ELSE Head(cs) \o JoinChars(Tail(cs))

RECURSIVE JoinWith(_, _)
JoinWith(sep, parts) ==
    IF parts = <<>> THEN ""
    ELSE IF Len(parts) = 1 THEN parts[1]
    ELSE parts[1] \o sep \o JoinWith(sep, Tail(parts))

\* str(value)
PyStr(v) ==
    CASE v.t = "none" -> "None"
      [] v.t = "str" -> v.s
      [] v.t = "int" -> ToString(v.i)
      [] v.t = "bool" -> (IF v.i = 1 THEN "True" ELSE "False")
      [] v.t = "float" -> v.s
      [] OTHER -> "<object>"

\* isinstance(context, (str, int, float)); bool is a subclass of int
IsScalar(v) == v.t \in {"str", "int", "bool", "float"}

\* isinstance(context, dict) or hasattr(context, "__iter__")
IsDictLike(v) == v.t \in {"dict", "iter"}

\* except (TypeError, ValueError, AttributeError)
CaughtErrors == {"TypeError", "ValueError", "AttributeError"}
\* the exception that reading the context as (key, value) pairs raises
pairs_error(v) == IF v.t = "iter" THEN v.s ELSE ""

(***************************************************************************)
(* LogItem                                                                 *)
(***************************************************************************)
LogItem(message, context, level) ==
    [message |-> message, context |-> context, level |-> level]

\* the nested _format_value of both renderers
format_value(value) ==
    IF value.t = "str" THEN "'" \o value.s \o "'" ELSE PyStr(value)

format_pair(pair) == pair[1] \o "=" \o format_value(pair[2])

\* the console renderer with the one-entry case left out
format_dict_like_console_block(title, data) ==
    LET data_len == Len(data.kv)
    IN  IF data_len = 0 THEN title
        ELSE JoinWith("\n",
                 <<title \o ":">> \o
                 [k \in 1..data_len |-> "  - " \o format_pair(data.kv[k])])

format_dict_like_console(title, data) ==
    LET data_len == Len(data.kv)
    IN  IF data_len = 0 THEN title
        ELSE IF data_len = 1 THEN title \o ": " \o format_pair(data.kv[1])
        ELSE JoinWith("\n",
                 <<title \o ":">> \o
                 [k \in 1..data_len |-> "  - " \o format_pair(data.kv[k])])

\* the file renderer with one entry per line
serialise_dict_like_lines(data) ==
    JoinWith("\n", [k \in 1..Len(data.kv) |-> format_pair(data.kv[k])])

serialise_dict_like(data) ==
    JoinWith(", ", [k \in 1..Len(data.kv) |-> format_pair(data.kv[k])])

\* the exception a renderer lets out: one raised inside its try block that
\* the except clause does not name ("None" when it returns)
format_raises(item) ==
    IF /\ item.context.t # "none" /\ ~IsScalar(item.context)
       /\ IsDictLike(item.context)
       /\ pairs_error(item.context) # ""
       /\ pairs_error(item.context) \notin CaughtErrors
    THEN pairs_error(item.context) ELSE "None"

format_console(item) ==
    IF item.context.t = "none" THEN item.message
    ELSE IF IsScalar(item.context)
         THEN item.message \o ": " \o PyStr(item.context)
    ELSE IF IsDictLike(item.context) /\ pairs_error(item.context) = ""
         THEN format_dict_like_console(item.message, item.context)
    ELSE item.message \o ": " \o PyStr(item.context)

format_file(item) ==
    IF item.context.t = "none" THEN item.message
    ELSE IF IsScalar(item.context)
         THEN item.message \o ", " \o PyStr(item.context)
    ELSE IF IsDictLike(item.context) /\ pairs_error(item.context) = ""
         THEN item.message \o ", " \o serialise_dict_like(item.context)
    ELSE item.message \o ", " \o PyStr(item.context)

\* __str__
item_str(item) == format_console(item)

\* the context once a renderer has read it: an iterator is left exhausted
consumed(context) ==
    IF context.t = "iter" /\ context.i = 1 THEN OneShotVal(<<>>) ELSE context
\* the item once a renderer has read its context
rendered(item) == [item EXCEPT !.context = consumed(@)]

FILE_LOG_LEVEL_MAP(level) ==
    CASE level = SUCCESS -> logging_INFO
      [] level = NOTICE -> logging_INFO
      [] level = INFO -> logging_INFO
      [] level = WARNING -> logging_WARNING
      [] level = ERROR -> logging_ERROR
      [] level = DEBUG -> logging_DEBUG

\* the (emoji, colour) pair _log hands to _output_console for each level
ConsoleMarker(level) ==
    CASE level = SUCCESS -> <<"<check>", "<GREEN>">>
      [] level = NOTICE -> <<"<info>", "">>
      [] level = ERROR -> <<"<cross>", "<RED>">>
      [] level = WARNING -> <<"<warn>", "<YELLOW>">>
      [] level = INFO -> <<"", "">>
      [] level = DEBUG -> <<"<tools>", "<BLUE>">>


(***************************************************************************)
(* State                                                                   *)
(***************************************************************************)
\* the secret keys the model sets and reads
Keys == {"A", "B"}
Names == {DefaultName, "app"}
\* the webhook variables of the environment
EnvKeys == {"GCHAT_WEBHOOK_SPACE1", "GCHAT_WEBHOOK_OPS"}
Paths == {"a.log", "logs/b.log"}
\* log_file_path.parent != Path(): the paths that name a parent directory
HasParent(p) == p = "logs/b.log"

VARIABLES
    configs,    \* the LogConfig objects, by object id
    loggers,    \* the StructuredLogger objects, by object id
    handlers,   \* the RotatingFileHandler objects, by the id of their installer
    channels,   \* logging.getLogger(name).handlers, by name
    files,      \* the file system: each path's existence and lines
    printed,    \* what the call in progress (or the last call) wrote to stdout
    logged,     \* the records that call handed to its logging channel
    stdin,      \* the line last read from the interactive input channel
    args,       \* the arguments of that call
    ctx,        \* LoggerContext._logger: an object id, 0 for None
    ret,        \* the outcome of the last call: returned value or exception
    pc,         \* the call suspended in a blocking read, if any
    sent,       \* history: the file messages each logger's callers emitted before its close
    hist,       \* history: what initialize stored since the last reset, 0 if none
    log_items,  \* the LogItem objects user code holds, by object id
    err,        \* the StructuredError constructed last
    environ,    \* os.environ: each key's value or None
    dotenv,     \* the .env file: each key's value or None
    secret,     \* the SecretCore singleton: its storage and allow-list
    was_set,    \* history: the value each key's last successful set() stored
    chat        \* GoogleChatClient's side: environ, the webhook variables of
                \* os.environ; requests, the HTTP requests the last call
                \* issued; result, what the last send_message returned

vars == <<configs, loggers, handlers, channels, files, printed, logged, stdin,
          args, ctx, ret, pc, sent, hist, log_items, err, environ, dotenv, secret,
          was_set, chat>>
\* what the logging facility never touches, and what the secret store never
\* does; neither touches the chat client's side
SecretVars == <<environ, dotenv, secret, was_set, chat>>
LoggingVars == <<configs, loggers, handlers, channels, files, stdin, ctx, pc,
                 sent, hist, log_items, err, chat>>
\* the objects the logger and the context never touch
LogItemVars == <<log_items, err>>

\* log_file_max_bytes: int = 1 * 1024 * 1024, log_file_backup_count: int = 1
DefaultMaxBytes == 1048576
DefaultBackupCount == 1
LogConfig(level, log_file, dry_run) ==
    [made |-> TRUE, level |-> level, log_file |-> log_file, dry_run |-> dry_run,
     log_file_max_bytes |-> DefaultMaxBytes,
     log_file_backup_count |-> DefaultBackupCount]
DefaultLogConfig == LogConfig(logging_INFO, NoPath, FALSE)
NoConfig == [made |-> FALSE, level |-> 0, log_file |-> NoPath, dry_run |-> FALSE,
             log_file_max_bytes |-> 0, log_file_backup_count |-> 0]

NoLogger ==
    [state |-> "unborn", name |-> NoName, config |-> 0, handlers |-> <<>>,
     prefix |-> "", scope |-> "out", closed |-> FALSE]
NoHandler ==
    [state |-> "none", file |-> NoPath, flushes |-> 0, closes |-> 0, removes |-> 0,
     maxBytes |-> 0, backupCount |-> 0]
\* a path: the lines of the file, and of its numbered backups path.1, path.2, ..
NoFile == [exists |-> FALSE, lines |-> <<>>, backups |-> <<>>]
NoItem == [made |-> FALSE, item |-> [message |-> "", context |-> NoneVal, level |-> INFO]]
NoError == [made |-> FALSE, log_item |-> 0, text |-> ""]
\* SecretCore before any instance: _instance is None (0); made counts the
\* SecretCore objects ever created; the other fields are the instance's
NoSecretCore ==
    [instance |-> 0, made |-> 0, storage |-> FALSE, storage_type |-> "dotenv",
     allow_overwrite_keys |-> {}, env_file_path |-> NoPath]
Idle == [op |-> "idle", logger |-> 0]
Blocked(op, l) == [op |-> op, logger |-> l]
\* the arguments of a call: title is the title or prompt, data the context,
\* flag the password or default switch, items and key those of summary
NoArgs == [title |-> "", data |-> NoneVal, flag |-> FALSE, items |-> <<>>,
           key |-> NoneVal]
LevelArgs(title, data) == [NoArgs EXCEPT !.title = title, !.data = data]
PromptArgs(prompt, flag) == [NoArgs EXCEPT !.title = prompt, !.flag = flag]
SummaryArgs(title, items, total_key) ==
    [NoArgs EXCEPT !.title = title, !.items = items, !.key = total_key]
Returned(op, l, value) == [op |-> op, logger |-> l, exc |-> "None", value |-> value]
Raised(op, l, exc) == [op |-> op, logger |-> l, exc |-> exc, value |-> NoneVal]
\* the call is inside input(): no line read yet, nothing returned yet
Waiting(l) == [op |-> "input", logger |-> l, exc |-> "None", value |-> NoneVal]
LoggerRef(l) == [t |-> "logger", i |-> l, s |-> "", kv |-> <<>>]

Init ==
    /\ configs = [c \in LoggerIds |-> NoConfig]
    /\ loggers = [l \in LoggerIds |-> NoLogger]
    /\ handlers = [h \in LoggerIds |-> NoHandler]
    /\ channels = [n \in Names |-> <<>>]
    /\ files = [p \in Paths |-> NoFile]
    /\ printed = <<>>
    /\ logged = <<>>
    /\ stdin = <<>>
    /\ args = NoArgs
    /\ ctx = 0
    /\ ret = Returned("start", 0, NoneVal)
    /\ pc = Idle
    /\ sent = [l \in LoggerIds |-> {}]
    /\ hist = 0
    /\ log_items = [k \in ItemIds |-> NoItem]
    /\ err = NoError
    /\ environ = [k \in Keys |-> NoneVal]
    /\ dotenv = [k \in Keys |-> NoneVal]
    /\ secret = NoSecretCore
    /\ chat = [environ |-> [k \in EnvKeys |-> NoneVal], requests |-> 0,
               result |-> FALSE]
    /\ was_set = [k \in Keys |-> NoneVal]

Live(l) == loggers[l].state = "live"
\* a call that writes nothing and reads nothing
Quiet == printed' = <<>> /\ logged' = <<>> /\ args' = NoArgs /\ stdin' = stdin
FreeId(l) == /\ loggers[l].state = "unborn"
             /\ \A k \in LoggerIds : k < l => loggers[k].state # "unborn"
RECURSIVE TotalLines(_)
TotalLines(ps) ==
    IF ps = {} THEN 0
    ELSE LET p == CHOOSE q \in ps : TRUE
         IN  Len(files[p].lines) + TotalLines(ps \ {p})
\* the writers stop when the log files hold MaxRecords lines
Room == TotalLines(Paths) < MaxRecords
\* an interactive call starts while the files have room for its two records
RoomToAsk == TotalLines(Paths) + 2 <= MaxAskRecords

(***************************************************************************)
(* The logging channel (stdlib): Logger.log -> callHandlers -> emit        *)
(***************************************************************************)
\* stream.tell() at the end of the file: every line and its newline
RECURSIVE tell(_)
tell(lines) == IF lines = <<>> THEN 0 ELSE Len(Head(lines)) + 1 + tell(Tail(lines))

\* RotatingFileHandler.shouldRollover
shouldRollover(h, file, line) ==
    h.maxBytes > 0 /\ tell(file.lines) + Len(line) + 1 >= h.maxBytes

\* RotatingFileHandler.doRollover: path.i -> path.(i+1) for i < backupCount,
\* path -> path.1, and the stream reopened (mode 'a'); without backups the
\* stream is only reopened
doRollover(h, file) ==
    IF h.backupCount > 0
    THEN [file EXCEPT !.lines = <<>>,
                      !.backups = SubSeq(<<file.lines>> \o file.backups, 1,
                                         IF Len(file.backups) + 1 <= h.backupCount
                                         THEN Len(file.backups) + 1
                                         ELSE h.backupCount)]
    ELSE file

\* BaseRotatingHandler.emit
emit(h, file, line) ==
    LET rolled == IF shouldRollover(h, file, line) THEN doRollover(h, file) ELSE file
    IN  [rolled EXCEPT !.exists = TRUE, !.lines = Append(@, line)]

RECURSIVE callHandlers(_, _, _, _)
callHandlers(fs, hobjs, hlist, line) ==
    IF hlist = <<>> THEN fs
    ELSE LET h == hobjs[Head(hlist)]
         IN  callHandlers([fs EXCEPT ![h.file] = emit(h, @, line)],
                          hobjs, Tail(hlist), line)

\* self.logger.log(file_level, message) on a channel set to logging.DEBUG
logger_log(fs, hobjs, hlist, file_level, message) ==
    IF file_level >= logging_DEBUG
    THEN callHandlers(fs, hobjs, hlist, AscTime \o ", " \o message)
    ELSE fs

(***************************************************************************)
(* StructuredLogger: dispatch.  self is [logger, config, hobjs, channel],  *)
(* o is the output so far [printed, files, logged].                        *)
(***************************************************************************)
resolve_level(self) == self.config.level

\* _should_log with > in place of >=
should_log_above(self, threshold) ==
    LET resolved == resolve_level(self)
    IN  IF resolved <= 0 THEN FALSE ELSE resolved > threshold

should_log(self, threshold) ==
    LET resolved == resolve_level(self)
    IN  IF resolved <= 0 THEN FALSE ELSE resolved >= threshold

output_console(self, log_item, emoji, color) ==
    LET message == format_console(log_item)
        prefixed == IF self.logger.prefix # ""
                    THEN self.logger.prefix \o message ELSE message
    IN  color \o emoji \o " " \o prefixed \o Reset

\* a prefix that follows the config's current dry_run flag
add_prefix_current(self, message) ==
    IF self.config.dry_run THEN DryRunPrefix \o message ELSE message
add_prefix(self, message) ==
    IF self.logger.prefix # "" THEN self.logger.prefix \o message ELSE message

log_internal(o, self, log_item, console) ==
    LET m == ConsoleMarker(log_item.level)
        p1 == IF console
              THEN Append(o.printed, output_console(self, log_item, m[1], m[2]))
              ELSE o.printed
        message == add_prefix(self, format_file(IF console THEN rendered(log_item)
                                                ELSE log_item))
    IN  IF self.config.log_file # NoPath
        THEN [printed |-> p1,
              files |-> logger_log(o.files, self.hobjs, self.channel,
                                   FILE_LOG_LEVEL_MAP(log_item.level), message),
              logged |-> Append(o.logged,
                                [level |-> FILE_LOG_LEVEL_MAP(log_item.level),
                                 message |-> message])]
        ELSE [printed |-> p1, files |-> o.files, logged |-> o.logged]

log(o, self, log_item) == log_internal(o, self, log_item, TRUE)

info(o, self, title, data) == log(o, self, LogItem(title, data, INFO))
notice(o, self, title, data) == log(o, self, LogItem(title, data, NOTICE))
warning(o, self, title, data) == log(o, self, LogItem(title, data, WARNING))
error(o, self, title, data) == log(o, self, LogItem(title, data, ERROR))
success(o, self, title, data) == log(o, self, LogItem(title, data, SUCCESS))
\* debug without its level test
debug_ungated(o, self, title, data) == log(o, self, LogItem(title, data, DEBUG))
debug(o, self, title, data) ==
    IF ~should_log(self, DebugThreshold) THEN o
    ELSE log(o, self, LogItem(title, data, DEBUG))

LevelMethods == {"info", "notice", "warning", "error", "success", "debug"}
level_method(m, o, self, title, data) ==
    CASE m = "info" -> info(o, self, title, data)
      [] m = "notice" -> notice(o, self, title, data)
      [] m = "warning" -> warning(o, self, title, data)
      [] m = "error" -> error(o, self, title, data)
      [] m = "success" -> success(o, self, title, data)
      [] m = "debug" -> debug(o, self, title, data)

\* the receiver of a call on logger l in the current state
Self(l) ==
    [logger |-> loggers[l], config |-> configs[loggers[l].config],
     hobjs |-> handlers, channel |-> channels[loggers[l].name]]
Out0 == [printed |-> <<>>, files |-> files, logged |-> <<>>]
Messages(records) == {records[k].message : k \in 1..Len(records)}
\* what l emitted counts for the history only until its first close
Sent(l, o) == IF loggers[l].closed THEN sent
              ELSE [sent EXCEPT ![l] = @ \cup Messages(o.logged)]

(***************************************************************************)
(* StructuredLogger: construction                                          *)
(***************************************************************************)
\* the config argument of the constructor: None, a LogConfig the caller has
\* just made, or a LogConfig object an earlier logger was given (ref)
NoConfigArg == [kind |-> "none", level |-> 0, log_file |-> NoPath,
                dry_run |-> FALSE, ref |-> 0,
                max_bytes |-> DefaultMaxBytes, backup_count |-> DefaultBackupCount]
NewConfigArg(level, log_file, dry_run) ==
    [kind |-> "new", level |-> level, log_file |-> log_file,
     dry_run |-> dry_run, ref |-> 0,
     max_bytes |-> DefaultMaxBytes, backup_count |-> DefaultBackupCount]
SharedConfigArg(c) == [kind |-> "shared", level |-> 0, log_file |-> NoPath,
                       dry_run |-> FALSE, ref |-> c,
                       max_bytes |-> DefaultMaxBytes,
                       backup_count |-> DefaultBackupCount]
\* LogConfig(log_file=.., log_file_max_bytes=.., log_file_backup_count=..)
RotatingConfigArg(log_file, max_bytes, backup_count) ==
    [NewConfigArg(logging_INFO, log_file, FALSE)
        EXCEPT !.max_bytes = max_bytes, !.backup_count = backup_count]

\* self.config = config or LogConfig()
config_or_default(ca) ==
    CASE ca.kind = "none" -> DefaultLogConfig
      [] ca.kind = "new" ->
            [LogConfig(ca.level, ca.log_file, ca.dry_run)
                EXCEPT !.log_file_max_bytes = ca.max_bytes,
                       !.log_file_backup_count = ca.backup_count]
      [] OTHER -> configs[ca.ref]

\* if self.config.log_file is None and log_file_path
takes_path(cfg, log_file_path) == cfg.log_file = NoPath /\ log_file_path # NoPath

\* the handlers installed whatever the channel holds
needs_install_always(chan) == TRUE
\* if not self.logger.handlers
needs_install(chan) == chan = <<>>

install_handlers(l, cfg, hobjs, chan, fs) ==
    IF cfg.log_file # NoPath
    THEN [hobjs |-> [hobjs EXCEPT ![l] =
                        [state |-> "open", file |-> cfg.log_file,
                         flushes |-> 0, closes |-> 0, removes |-> 0,
                         maxBytes |-> cfg.log_file_max_bytes,
                         backupCount |-> cfg.log_file_backup_count]],
          chan |-> Append(chan, l),
          own |-> <<l>>,
          files |-> [fs EXCEPT ![cfg.log_file].exists = TRUE]]
    ELSE [hobjs |-> hobjs, chan |-> chan, own |-> <<>>, files |-> fs]

\* __init__ past the directory creation: the state it leaves
construct(l, name, log_file_path, ca) ==
    LET c == IF ca.kind = "shared" THEN ca.ref ELSE l
        cfg0 == config_or_default(ca)
        cfg1 == IF takes_path(cfg0, log_file_path)
                THEN [cfg0 EXCEPT !.log_file = log_file_path] ELSE cfg0
        chan0 == channels[name]
        inst == IF needs_install(chan0)
                THEN install_handlers(l, cfg1, handlers, chan0, files)
                ELSE [hobjs |-> handlers, chan |-> chan0, own |-> <<>>,
                      files |-> files]
        lg == [state |-> "live", name |-> name, config |-> c,
               handlers |-> inst.own,
               prefix |-> IF cfg1.dry_run THEN DryRunPrefix ELSE "",
               scope |-> "out", closed |-> FALSE]
        self == [logger |-> lg, config |-> cfg1, hobjs |-> inst.hobjs,
                 channel |-> inst.chan]
        o0 == [printed |-> <<>>, files |-> inst.files, logged |-> <<>>]
        o1 == IF log_file_path = NoPath
              THEN info(o0, self, "Logger initialised without log file",
                        DictVal(<< <<"name", StrVal(name)>> >>))
              ELSE o0
        o2 == debug(o1, self, "Logger initialised",
                    DictVal(<< <<"level", IntVal(resolve_level(self))>>,
                               <<"log_file", PathVal(cfg1.log_file)>>,
                               <<"dry_run", BoolVal(cfg1.dry_run)>> >>))
    IN  [configs |-> [configs EXCEPT ![c] = cfg1],
         logger |-> lg,
         handlers |-> inst.hobjs,
         channels |-> [channels EXCEPT ![name] = inst.chan],
         files |-> o2.files,
         printed |-> o2.printed,
         logged |-> o2.logged]

StructuredLoggerInit(l, name, log_file_path, ca) ==
    /\ pc = Idle /\ FreeId(l) /\ Room
    /\ ca.kind = "shared" => configs[ca.ref].made
    /\ LET r == construct(l, name, log_file_path, ca)
       IN  /\ configs' = r.configs
           /\ loggers' = [loggers EXCEPT ![l] = r.logger]
           /\ handlers' = r.handlers
           /\ channels' = r.channels
           /\ files' = r.files
           /\ printed' = r.printed
           /\ logged' = r.logged
           /\ sent' = [sent EXCEPT ![l] = {}]
    /\ ret' = Returned("init", l, LoggerRef(l))
    /\ args' = NoArgs
    /\ UNCHANGED <<stdin, ctx, pc, hist, LogItemVars, SecretVars>>

\* log_file_path.parent.mkdir(...) raises OSError: __init__ raises ValueError
\* before it has touched the config, and no logger comes to be
StructuredLoggerInitFails(l, name, log_file_path, ca) ==
    /\ pc = Idle /\ FreeId(l)
    /\ ca.kind = "shared" => configs[ca.ref].made
    /\ takes_path(config_or_default(ca), log_file_path)
    /\ HasParent(log_file_path)
    /\ ~files[log_file_path].exists
    /\ Quiet
    /\ ret' = Raised("init", 0, "ValueError")
    /\ UNCHANGED <<configs, loggers, handlers, channels, files, ctx, pc, sent, hist, LogItemVars, SecretVars>>

(***************************************************************************)
(* StructuredLogger: level methods and set_level                           *)
(***************************************************************************)
CallLevelMethod(l, m, title, data) ==
    /\ pc = Idle /\ Live(l) /\ Room
    /\ LET o == level_method(m, Out0, Self(l), title, data)
       IN  /\ printed' = o.printed
           /\ files' = o.files
           /\ logged' = o.logged
           /\ sent' = Sent(l, o)
    /\ ret' = Returned(m, l, NoneVal)
    /\ args' = LevelArgs(title, data)
    /\ UNCHANGED <<configs, loggers, handlers, channels, stdin, ctx, pc, hist, LogItemVars, SecretVars>>

set_level(cfg, level) == [cfg EXCEPT !.level = level]

CallSetLevel(l, level) ==
    /\ pc = Idle /\ Live(l)
    /\ configs' = [configs EXCEPT ![loggers[l].config] = set_level(@, level)]
    /\ Quiet
    /\ ret' = Returned("set_level", l, NoneVal)
    /\ UNCHANGED <<loggers, handlers, channels, files, ctx, pc, sent, hist, LogItemVars, SecretVars>>

\* user code assigns config.dry_run on a LogConfig it holds
ConfigSetDryRun(c, dry_run) ==
    /\ pc = Idle /\ configs[c].made
    /\ configs' = [configs EXCEPT ![c].dry_run = dry_run]
    /\ Quiet
    /\ ret' = Returned("config.dry_run", 0, NoneVal)
    /\ UNCHANGED <<loggers, handlers, channels, files, ctx, pc, sent, hist, LogItemVars, SecretVars>>

(***************************************************************************)
(* StructuredLogger: close, context manager, end of life                   *)
(***************************************************************************)
RECURSIVE RemoveFirst(_, _)
RemoveFirst(seq, x) ==
    IF seq = <<>> THEN <<>>
    ELSE IF Head(seq) = x THEN Tail(seq)
    ELSE <<Head(seq)>> \o RemoveFirst(Tail(seq), x)

InSeq(seq, x) == \E k \in 1..Len(seq) : seq[k] = x

\* the loop of close(): handler.flush(); handler.close(); removeHandler(handler)
RECURSIVE close_handlers(_, _)
close_handlers(st, hs) ==
    IF hs = <<>> THEN st
    ELSE LET h == Head(hs)
             st1 == [hobjs |-> [st.hobjs EXCEPT ![h] =
                         [@ EXCEPT !.state = "closed",
                                   !.flushes = @ + 1,
                                   !.closes = @ + 1,
                                   !.removes = @ + (IF InSeq(st.chan, h) THEN 1 ELSE 0)]],
                     chan |-> RemoveFirst(st.chan, h)]
         IN  close_handlers(st1, Tail(hs))

\* close() without self.logger.removeHandler(handler)
close_keeps_attached(l) ==
    LET st == close_handlers([hobjs |-> handlers, chan |-> <<>>], loggers[l].handlers)
    IN  [handlers |-> st.hobjs,
         channels |-> channels,
         logger |-> [loggers[l] EXCEPT !.handlers = <<>>, !.closed = TRUE]]

\* close() without the final self._handlers = []
close_keeps_list(l) ==
    LET st == close_handlers([hobjs |-> handlers, chan |-> channels[loggers[l].name]],
                             loggers[l].handlers)
    IN  [handlers |-> st.hobjs,
         channels |-> [channels EXCEPT ![loggers[l].name] = st.chan],
         logger |-> [loggers[l] EXCEPT !.closed = TRUE]]

close(l) ==
    LET st == close_handlers([hobjs |-> handlers, chan |-> channels[loggers[l].name]],
                             loggers[l].handlers)
    IN  [handlers |-> st.hobjs,
         channels |-> [channels EXCEPT ![loggers[l].name] = st.chan],
         logger |-> [loggers[l] EXCEPT !.handlers = <<>>, !.closed = TRUE]]

CallClose(l) ==
    /\ pc = Idle /\ Live(l)
    /\ LET r == close(l)
       IN  /\ handlers' = r.handlers
           /\ channels' = r.channels
           /\ loggers' = [loggers EXCEPT ![l] = r.logger]
    /\ Quiet
    /\ ret' = Returned("close", l, NoneVal)
    /\ UNCHANGED <<configs, files, ctx, pc, sent, hist, LogItemVars, SecretVars>>

\* with logger: ... (__enter__ returns self)
Enter(l) ==
    /\ pc = Idle /\ Live(l) /\ loggers[l].scope # "in"
    /\ loggers' = [loggers EXCEPT ![l].scope = "in"]
    /\ Quiet
    /\ ret' = Returned("enter", l, LoggerRef(l))
    /\ UNCHANGED <<configs, handlers, channels, files, ctx, pc, sent, hist, LogItemVars, SecretVars>>

\* __exit__ that closes only when the block raised nothing
exit_unless_raised(l, exc_type) ==
    IF exc_type = "None" THEN close(l)
    ELSE [handlers |-> handlers, channels |-> channels, logger |-> loggers[l]]

\* __exit__(exc_type, exc, tb)
exit(l, exc_type) == close(l)

\* the ways a with block is left, and the exc_type __exit__ is given
BlockExits == {"normal", "return", "exception"}
ExcType(how) == IF how = "exception" THEN "BlockError" ELSE "None"

Exit(l, how) ==
    /\ pc = Idle /\ Live(l) /\ loggers[l].scope = "in"
    /\ LET r == exit(l, ExcType(how))
       IN  /\ handlers' = r.handlers
           /\ channels' = r.channels
           /\ loggers' = [loggers EXCEPT ![l] = [r.logger EXCEPT !.scope = "left"]]
    /\ Quiet
    \* __exit__ returns None, so an exception of the block propagates
    /\ ret' = IF how = "exception" THEN Raised("exit", l, ExcType(how))
              ELSE Returned("exit", l, NoneVal)
    /\ UNCHANGED <<configs, files, ctx, pc, sent, hist, LogItemVars, SecretVars>>

\* __del__: the last reference is dropped; try: self.close() except: pass
Del(l) ==
    /\ pc = Idle /\ Live(l) /\ loggers[l].scope # "in" /\ ctx # l
    /\ LET r == close(l)
       IN  /\ handlers' = r.handlers
           /\ channels' = r.channels
           /\ loggers' = [loggers EXCEPT ![l] = [NoLogger EXCEPT !.state = "dead"]]
    /\ Quiet
    /\ ret' = Returned("del", l, NoneVal)
    /\ UNCHANGED <<configs, files, ctx, pc, sent, hist, LogItemVars, SecretVars>>

\* the classes that `except Exception` catches among those a handler's flush,
\* close or removal raises with
ExceptionClasses == {"Exception", "OSError", "ValueError", "RuntimeError"}
CleanupSteps == {"flush", "close", "removeHandler"}

\* close() whose first handler raises at the given step: the statements
\* before it have run, self._handlers = [] has not
close_raising(l, step) ==
    LET h == Head(loggers[l].handlers)
    IN  [handlers |->
            [handlers EXCEPT ![h] =
                CASE step = "flush" -> @
                  [] step = "close" -> [@ EXCEPT !.flushes = @ + 1]
                  [] OTHER -> [@ EXCEPT !.state = "closed", !.flushes = @ + 1,
                                        !.closes = @ + 1]],
         channels |-> channels,
         logger |-> loggers[l]]

\* except OSError in place of except Exception
del_except_oserror(exc) == exc = "OSError"
\* except Exception: pass
del_except(exc) == exc \in ExceptionClasses

\* __del__ when close() raises exc at a step of the first handler
DelRaising(l, step, exc) ==
    /\ pc = Idle /\ Live(l) /\ loggers[l].scope # "in" /\ ctx # l
    /\ loggers[l].handlers # <<>>
    /\ LET r == close_raising(l, step)
       IN  /\ handlers' = r.handlers
           /\ channels' = r.channels
           /\ loggers' = [loggers EXCEPT ![l] = [NoLogger EXCEPT !.state = "dead"]]
    /\ Quiet
    /\ ret' = IF del_except(exc) THEN Returned("del", l, NoneVal)
              ELSE Raised("del", l, exc)
    /\ UNCHANGED <<configs, files, ctx, pc, sent, hist, LogItemVars, SecretVars>>

(***************************************************************************)
(* LoggerContext                                                           *)
(***************************************************************************)
\* initialize(logger): what it stores, given the argument (0 for None) and
\* the logger StructuredLogger() would construct
initialize(logger, fresh) == IF logger = 0 THEN fresh ELSE logger

\* the end of life of logger l in the state st = [loggers, handlers,
\* channels]: __del__ runs close()
finalize(st, l) ==
    LET name == st.loggers[l].name
        cs == close_handlers([hobjs |-> st.handlers, chan |-> st.channels[name]],
                             st.loggers[l].handlers)
    IN  [loggers |-> [st.loggers EXCEPT ![l] = [NoLogger EXCEPT !.state = "dead"]],
         handlers |-> cs.hobjs,
         channels |-> [st.channels EXCEPT ![name] = cs.chan]]

\* an assignment to cls._logger that closes the logger it replaces
let_go_closing(st, l, last) ==
    IF l = 0 THEN st
    ELSE IF last THEN finalize(st, l)
    ELSE LET f == finalize(st, l)
         IN  [f EXCEPT !.loggers = [st.loggers EXCEPT ![l].handlers = <<>>,
                                                      ![l].closed = TRUE]]
\* cls._logger = ...: the context lets go of the logger l it stored (0 for
\* none); the logger lives on when it is referenced elsewhere, and reaches
\* its end of life when this was the last reference to it
let_go(st, l, last) ==
    IF l # 0 /\ last THEN finalize(st, l) ELSE st

\* the stored logger can have lost its last reference: there is one, it is
\* not the logger stored next, and no with block holds it
CanBeLast(next) ==
    ctx # 0 /\ ctx # next /\ Live(ctx) /\ loggers[ctx].scope # "in"

\* initialize(logger) with a logger
InitializeWith(l, last) ==
    /\ pc = Idle /\ Live(l)
    /\ last => CanBeLast(l)
    /\ LET st == let_go([loggers |-> loggers, handlers |-> handlers,
                         channels |-> channels],
                        IF ctx = l THEN 0 ELSE ctx, last)
       IN  /\ loggers' = st.loggers
           /\ handlers' = st.handlers
           /\ channels' = st.channels
    /\ ctx' = initialize(l, 0)
    /\ hist' = l
    /\ Quiet
    /\ ret' = Returned("initialize", l, LoggerRef(ctx'))
    /\ UNCHANGED <<configs, files, pc, sent, LogItemVars, SecretVars>>

\* initialize(None): cls._logger = StructuredLogger()
InitializeDefault(l, last) ==
    /\ pc = Idle /\ FreeId(l) /\ Room
    /\ last => CanBeLast(l)
    /\ LET r == construct(l, DefaultName, NoPath, NoConfigArg)
           st == let_go([loggers |-> [loggers EXCEPT ![l] = r.logger],
                         handlers |-> r.handlers, channels |-> r.channels],
                        ctx, last)
       IN  /\ configs' = r.configs
           /\ loggers' = st.loggers
           /\ handlers' = st.handlers
           /\ channels' = st.channels
           /\ files' = r.files
           /\ printed' = r.printed
           /\ logged' = r.logged
           /\ sent' = [sent EXCEPT ![l] = {}]
    /\ ctx' = initialize(0, l)
    /\ hist' = l
    /\ ret' = Returned("initialize", 0, LoggerRef(ctx'))
    /\ args' = NoArgs
    /\ UNCHANGED <<stdin, pc, LogItemVars, SecretVars>>

get_logger(c) ==
    IF c = 0 THEN Raised("get_logger", 0, "RuntimeError")
    ELSE Returned("get_logger", 0, LoggerRef(c))

GetLogger ==
    /\ pc = Idle
    /\ ret' = get_logger(ctx)
    /\ Quiet
    /\ UNCHANGED <<configs, loggers, handlers, channels, files, ctx, pc, sent, hist, LogItemVars, SecretVars>>

is_initialized(c) == c # 0

IsInitialized ==
    /\ pc = Idle
    /\ ret' = Returned("is_initialized", 0, BoolVal(is_initialized(ctx)))
    /\ Quiet
    /\ UNCHANGED <<configs, loggers, handlers, channels, files, ctx, pc, sent, hist, LogItemVars, SecretVars>>

\* a reset() that leaves the reference in place
reset_keeps(c) == c
reset(c) == 0

ResetContext(last) ==
    /\ pc = Idle
    /\ last => CanBeLast(0)
    /\ LET st == let_go([loggers |-> loggers, handlers |-> handlers,
                         channels |-> channels], ctx, last)
       IN  /\ loggers' = st.loggers
           /\ handlers' = st.handlers
           /\ channels' = st.channels
    /\ ctx' = reset(ctx)
    /\ hist' = 0
    /\ Quiet
    /\ ret' = Returned("reset", ctx, NoneVal)
    /\ UNCHANGED <<configs, files, pc, sent, LogItemVars, SecretVars>>

(***************************************************************************)
(* detect_log_config                                                       *)
(***************************************************************************)
\* LogConfig(level=None): the level of a config made without --log-level
NoLevel == -999
\* the words of a command line as the caller passes them
ArgvVal(argv) == [t |-> "list", i |-> 0, s |-> "", kv |-> argv]
\* a word that argparse reads as an option
IsOption(word) == word \in {"--log-level", "--log-file"}
\* type=int, choices=[0, 1, 10, 100]: the level a word stands for, NoLevel
\* for a word that argparse rejects
log_level_of(word) ==
    CASE word = "0" -> 0
      [] word = "1" -> 1
      [] word = "10" -> 10
      [] word = "100" -> 100
      [] OTHER -> NoLevel

\* parser.parse_known_args: the options found so far are in known; an option
\* without a value or with a rejected value exits (SystemExit), any other
\* word is left to the caller
RECURSIVE parse_known_args(_, _)
parse_known_args(argv, known) ==
    IF argv = <<>> THEN known
    ELSE IF ~IsOption(argv[1]) THEN parse_known_args(Tail(argv), known)
    ELSE IF Len(argv) < 2 \/ IsOption(argv[2]) THEN [known EXCEPT !.exit = TRUE]
    ELSE IF argv[1] = "--log-file"
    THEN parse_known_args(Tail(Tail(argv)), [known EXCEPT !.log_file = argv[2]])
    ELSE IF log_level_of(argv[2]) = NoLevel THEN [known EXCEPT !.exit = TRUE]
    ELSE parse_known_args(Tail(Tail(argv)),
                          [known EXCEPT !.log_level = log_level_of(argv[2])])

\* detect_log_config(argv): both options default to None
detect_log_config(argv) ==
    parse_known_args(argv, [exit |-> FALSE, log_level |-> NoLevel,
                            log_file |-> NoPath])

\* None <= 0 in _should_log raises TypeError
should_log_raises(cfg) == cfg.level = NoLevel

\* StructuredLogger(name, log_file_path, config=detect_log_config(argv)).
\* With a level the constructor runs as for any new LogConfig.  With the level
\* None it raises TypeError at its first level test, in the closing debug():
\* the handlers are installed and the info() record is out by then, and the
\* object, never handed to the caller, reaches its end of life
StructuredLoggerInitDetected(l, name, log_file_path, argv) ==
    /\ pc = Idle /\ FreeId(l) /\ Room
    /\ LET known == detect_log_config(argv)
           ca == NewConfigArg(known.log_level, known.log_file, FALSE)
           r == construct(l, name, log_file_path, ca)
           ended == finalize([loggers |-> [loggers EXCEPT ![l] = r.logger],
                              handlers |-> r.handlers,
                              channels |-> r.channels], l)
       IN  IF known.exit
           THEN /\ ret' = Raised("detect_log_config", 0, "SystemExit")
                /\ printed' = <<>> /\ logged' = <<>>
                /\ UNCHANGED <<configs, loggers, handlers, channels, files, sent>>
           ELSE IF should_log_raises(config_or_default(ca))
           THEN /\ ret' = Raised("init", 0, "TypeError")
                /\ loggers' = ended.loggers
                /\ handlers' = ended.handlers
                /\ channels' = ended.channels
                /\ files' = r.files
                /\ printed' = r.printed
                /\ logged' = r.logged
                /\ UNCHANGED <<configs, sent>>
           ELSE /\ ret' = Returned("init", l, LoggerRef(l))
                /\ configs' = r.configs
                /\ loggers' = [loggers EXCEPT ![l] = r.logger]
                /\ handlers' = r.handlers
                /\ channels' = r.channels
                /\ files' = r.files
                /\ printed' = r.printed
                /\ logged' = r.logged
                /\ sent' = [sent EXCEPT ![l] = {}]
    /\ args' = [NoArgs EXCEPT !.title = name, !.data = ArgvVal(argv)]
    /\ UNCHANGED <<stdin, ctx, pc, hist, LogItemVars, SecretVars>>

(***************************************************************************)
(* StructuredLogger: ask, confirm                                          *)
(***************************************************************************)
Whitespace == {" "}

RECURSIVE lstrip(_)
lstrip(cs) == IF cs # <<>> /\ Head(cs) \in Whitespace THEN lstrip(Tail(cs)) ELSE cs

RECURSIVE rstrip(_)
rstrip(cs) ==
    IF cs # <<>> /\ cs[Len(cs)] \in Whitespace
    THEN rstrip(SubSeq(cs, 1, Len(cs) - 1)) ELSE cs

\* str.strip()
strip(cs) == rstrip(lstrip(cs))

\* str.lower()
lower(cs) == [k \in 1..Len(cs) |-> IF cs[k] = "Y" THEN "y" ELSE cs[k]]

\* the value ask logs for a password, without the masking
unmasked(response) == JoinChars(response)
\* masked = "*" * len(response)
masked(response) == Repeat("*", Len(response))

\* ask up to the blocking read: the info entry, then input() writes its
\* prompt to stdout (getpass() writes its own to the terminal, not stdout)
ask_request(o, self, prompt, password) ==
    LET o1 == info(o, self, "User input requested", StrVal(prompt))
    IN  IF password THEN o1
        ELSE [o1 EXCEPT !.printed = Append(@, "<question> " \o prompt \o ": ")]

\* ask from the response on: the DEBUG entry; the response is returned
ask_captured(o, self, prompt, password, response) ==
    debug(o, self, "User input captured",
          DictVal(<< <<"prompt", StrVal(prompt)>>,
                     <<"value", StrVal(IF password THEN masked(response)
                                       ELSE JoinChars(response))>> >>))

AskRequest(l, prompt, password) ==
    /\ pc = Idle /\ Live(l) /\ RoomToAsk
    /\ LET o == ask_request(Out0, Self(l), prompt, password)
       IN  /\ printed' = o.printed
           /\ files' = o.files
           /\ logged' = o.logged
           /\ sent' = Sent(l, o)
    /\ args' = PromptArgs(prompt, password)
    /\ pc' = Blocked("ask", l)
    /\ stdin' = <<>>
    /\ ret' = Waiting(l)
    /\ UNCHANGED <<configs, loggers, handlers, channels, ctx, hist, LogItemVars, SecretVars>>

AskResponse(response) ==
    /\ pc.op = "ask"
    /\ LET l == pc.logger
           o == ask_captured([printed |-> printed, files |-> files, logged |-> logged],
                             Self(l), args.title, args.flag, response)
       IN  /\ printed' = o.printed
           /\ files' = o.files
           /\ logged' = o.logged
           /\ sent' = Sent(l, [o EXCEPT !.logged = SubSeq(@, Len(logged) + 1, Len(@))])
           /\ ret' = Returned("ask", l, StrVal(JoinChars(response)))
    /\ stdin' = response
    /\ pc' = Idle
    /\ UNCHANGED <<configs, loggers, handlers, channels, args, ctx, hist, LogItemVars, SecretVars>>

\* confirm up to the blocking read
confirm_request(o, self, prompt, default) ==
    LET suffix == IF default THEN " (Y/n)" ELSE " (y/N)"
        o1 == info(o, self, "User confirmation requested", StrVal(prompt))
    IN  [o1 EXCEPT !.printed = Append(@, "<question> " \o prompt \o suffix \o ": ")]

\* response = input(...).strip().lower()
confirm_response(raw) == lower(strip(raw))

\* if not response: result = default, else: result = response in ("y", "Y")
confirm_result(response, default) ==
    IF response = <<>> THEN default ELSE response \in {<<"y">>, <<"Y">>}

confirm_captured(o, self, prompt, default, raw) ==
    LET response == confirm_response(raw)
        result == confirm_result(response, default)
    IN  debug(o, self, "User confirmation captured",
              DictVal(<< <<"prompt", StrVal(prompt)>>,
                         <<"response", StrVal(JoinChars(response))>>,
                         <<"result", BoolVal(result)>> >>))

ConfirmRequest(l, prompt, default) ==
    /\ pc = Idle /\ Live(l) /\ RoomToAsk
    /\ LET o == confirm_request(Out0, Self(l), prompt, default)
       IN  /\ printed' = o.printed
           /\ files' = o.files
           /\ logged' = o.logged
           /\ sent' = Sent(l, o)
    /\ args' = PromptArgs(prompt, default)
    /\ pc' = Blocked("confirm", l)
    /\ stdin' = <<>>
    /\ ret' = Waiting(l)
    /\ UNCHANGED <<configs, loggers, handlers, channels, ctx, hist, LogItemVars, SecretVars>>

ConfirmResponse(raw) ==
    /\ pc.op = "confirm"
    /\ LET l == pc.logger
           o == confirm_captured([printed |-> printed, files |-> files, logged |-> logged],
                                 Self(l), args.title, args.flag, raw)
       IN  /\ printed' = o.printed
           /\ files' = o.files
           /\ logged' = o.logged
           /\ sent' = Sent(l, [o EXCEPT !.logged = SubSeq(@, Len(logged) + 1, Len(@))])
           /\ ret' = Returned("confirm", l,
                              BoolVal(confirm_result(confirm_response(raw), args.flag)))
    /\ stdin' = raw
    /\ pc' = Idle
    /\ UNCHANGED <<configs, loggers, handlers, channels, args, ctx, hist, LogItemVars, SecretVars>>

(***************************************************************************)
(* StructuredLogger: summary                                               *)
(***************************************************************************)
RECURSIVE PadRight(_, _)
PadRight(str, width) == IF Len(str) >= width THEN str ELSE PadRight(str \o " ", width)
RECURSIVE PadLeft(_, _)
PadLeft(str, width) == IF Len(str) >= width THEN str ELSE PadLeft(" " \o str, width)

Separator == Repeat("=", SeparatorWidth)
Divider == "  " \o Repeat("-", DividerWidth)

\* an item is [label, value, color]; color "" is a missing or empty colour
SummaryRow(item) ==
    IF item.color # ""
    THEN "  " \o item.color \o PadRight(item.label, LabelWidth) \o Reset \o " : "
              \o PadLeft(ToString(item.value), ValueWidth) \o " <ken>"
    ELSE "  " \o PadRight(item.label, LabelWidth) \o " : "
              \o PadLeft(ToString(item.value), ValueWidth) \o " <ken>"

\* a divider wherever the label equals total_key, an empty one included
is_total_any(total_key, label) == total_key.t = "str" /\ label = total_key.s
\* if total_key and label == total_key
is_total(total_key, label) ==
    /\ total_key.t = "str" /\ total_key.s # ""
    /\ label = total_key.s

RECURSIVE SummaryRows(_, _)
SummaryRows(items, total_key) ==
    IF items = <<>> THEN <<>>
    ELSE (IF is_total(total_key, Head(items).label) THEN <<Divider>> ELSE <<>>)
         \o <<SummaryRow(Head(items))>>
         \o SummaryRows(Tail(items), total_key)

summary(o, self, title, items, total_key) ==
    LET table == <<"\n" \o Separator, title, Separator>>
                 \o SummaryRows(items, total_key) \o <<Separator \o "\n">>
        log_data == DictVal([k \in 1..Len(items) |->
                                <<items[k].label, IntVal(items[k].value)>>])
    IN  log_internal([o EXCEPT !.printed = @ \o table], self,
                     LogItem(title, log_data, INFO), FALSE)

CallSummary(l, title, items, total_key) ==
    /\ pc = Idle /\ Live(l) /\ Room
    /\ LET o == summary(Out0, Self(l), title, items, total_key)
       IN  /\ printed' = o.printed
           /\ files' = o.files
           /\ logged' = o.logged
           /\ sent' = Sent(l, o)
    /\ args' = SummaryArgs(title, items, total_key)
    /\ ret' = Returned("summary", l, NoneVal)
    /\ UNCHANGED <<configs, loggers, handlers, channels, stdin, ctx, pc, hist, LogItemVars, SecretVars>>

(***************************************************************************)
(* LogItem and StructuredError as user code calls them                     *)
(***************************************************************************)
ItemRef(k) == [t |-> "item", i |-> k, s |-> "", kv |-> <<>>]
FreeItem(k) == /\ ~log_items[k].made
               /\ \A j \in ItemIds : j < k => log_items[j].made
\* what the other variables do in a call that writes and reads nothing
NoOutput == /\ printed' = <<>> /\ logged' = <<>>
            /\ UNCHANGED <<configs, loggers, handlers, channels, files, stdin,
                           ctx, pc, sent, hist, SecretVars>>

\* LogItem(message, context, level) and the level-tagged factory methods
NewLogItem(k, message, context, level) ==
    /\ pc = Idle /\ FreeItem(k)
    /\ log_items' = [log_items EXCEPT ![k] = [made |-> TRUE,
                                      item |-> LogItem(message, context, level)]]
    /\ ret' = Returned("LogItem", 0, ItemRef(k))
    /\ args' = LevelArgs(message, context)
    /\ err' = err
    /\ NoOutput

\* the outcome of a rendering call: the text, or the exception let out
rendering(op, item, text) ==
    IF format_raises(item) # "None" THEN Raised(op, 0, format_raises(item))
    ELSE Returned(op, 0, StrVal(text))

CallFormatConsole(k) ==
    /\ pc = Idle /\ log_items[k].made
    /\ ret' = rendering("format_console", log_items[k].item, format_console(log_items[k].item))
    /\ args' = LevelArgs(log_items[k].item.message, log_items[k].item.context)
    /\ log_items' = [log_items EXCEPT ![k].item = rendered(@)]
    /\ err' = err
    /\ NoOutput

CallFormatFile(k) ==
    /\ pc = Idle /\ log_items[k].made
    /\ ret' = rendering("format_file", log_items[k].item, format_file(log_items[k].item))
    /\ args' = LevelArgs(log_items[k].item.message, log_items[k].item.context)
    /\ log_items' = [log_items EXCEPT ![k].item = rendered(@)]
    /\ err' = err
    /\ NoOutput

CallStr(k) ==
    /\ pc = Idle /\ log_items[k].made
    /\ ret' = rendering("str", log_items[k].item, item_str(log_items[k].item))
    /\ args' = LevelArgs(log_items[k].item.message, log_items[k].item.context)
    /\ log_items' = [log_items EXCEPT ![k].item = rendered(@)]
    /\ err' = err
    /\ NoOutput

\* a StructuredError that keeps a copy of the item it is given
structured_error_copy(k) ==
    LET fresh == IF \E j \in ItemIds : FreeItem(j)
                 THEN CHOOSE j \in ItemIds : FreeItem(j) ELSE k
    IN  [log_items |-> [log_items EXCEPT ![k].item = rendered(@),
                                         ![fresh] = log_items[k]],
         err |-> [made |-> TRUE, log_item |-> fresh,
                  text |-> item_str(log_items[k].item)]]
\* StructuredError(log_item) with a LogItem: self.log_item = log_item,
\* super().__init__(str(log_item))
structured_error(k) ==
    [log_items |-> [log_items EXCEPT ![k].item = rendered(@)],
     err |-> [made |-> TRUE, log_item |-> k, text |-> item_str(log_items[k].item)]]

StructuredErrorOfItem(k) ==
    /\ pc = Idle /\ log_items[k].made
    /\ IF format_raises(log_items[k].item) # "None"
       THEN /\ UNCHANGED LogItemVars
            /\ ret' = Raised("StructuredError", 0, format_raises(log_items[k].item))
       ELSE /\ log_items' = structured_error(k).log_items
            /\ err' = structured_error(k).err
            /\ ret' = Returned("StructuredError", 0,
                               ItemRef(structured_error(k).err.log_item))
    /\ args' = LevelArgs("", ItemRef(k))
    /\ NoOutput

\* StructuredError(message) with a string: LogItem(message, level=LogLevel.ERROR)
promoted(message) == LogItem(message, NoneVal, ERROR)

StructuredErrorOfString(k, message) ==
    /\ pc = Idle /\ FreeItem(k)
    /\ log_items' = [log_items EXCEPT ![k] = [made |-> TRUE, item |-> promoted(message)]]
    /\ err' = [made |-> TRUE, log_item |-> k, text |-> item_str(promoted(message))]
    /\ ret' = Returned("StructuredError", 0, ItemRef(k))
    /\ args' = LevelArgs("", StrVal(message))
    /\ NoOutput

\* str(error): Exception.__str__ gives the one argument of super().__init__
ErrorStr ==
    /\ pc = Idle /\ err.made
    /\ ret' = Returned("str(error)", 0, StrVal(err.text))
    /\ args' = NoArgs
    /\ UNCHANGED LogItemVars
    /\ NoOutput

(***************************************************************************)
(* SecretCore over DotEnvStorage.  environ is os.environ, dotenv the .env  *)
(* file; load_dotenv and set_key are python-dotenv's.                      *)
(***************************************************************************)
\* load_dotenv(path, override): a key of the file is put in the environment
\* unless the environment has it already and override is off
load_dotenv(env, file, override) ==
    [k \in Keys |-> IF file[k] # NoneVal /\ (override \/ env[k] = NoneVal)
                    THEN file[k] ELSE env[k]]

\* set_key(path, key, value)
set_key(file, key, value) == [file EXCEPT ![key] = StrVal(value)]

\* DotEnvStorage.load: os.getenv(key)
storage_load(env, key) == env[key]

\* a save that writes the file and does not reload the environment
storage_save_file_only(env, file, key, value) ==
    [environ |-> env, dotenv |-> set_key(file, key, value)]
\* DotEnvStorage.save: set_key, then load_dotenv(override=True)
storage_save(env, file, key, value) ==
    LET written == set_key(file, key, value)
    IN  [environ |-> load_dotenv(env, written, TRUE), dotenv |-> written]

\* a call of the store writes nothing to stdout or the log
Silent == printed' = <<>> /\ logged' = <<>>

\* the process starts with the variable in its environment
EnvironSet(key, value) ==
    /\ pc = Idle /\ ~secret.storage
    /\ environ' = [environ EXCEPT ![key] = StrVal(value)]
    /\ ret' = Returned("environ", 0, NoneVal)
    /\ args' = [NoArgs EXCEPT !.title = key, !.data = StrVal(value)]
    /\ Silent
    /\ UNCHANGED <<dotenv, secret, was_set, LoggingVars>>

\* the .env file holds the key before the store is initialized
DotEnvWritten(key, value) ==
    /\ pc = Idle /\ ~secret.storage
    /\ dotenv' = set_key(dotenv, key, value)
    /\ ret' = Returned("dotenv", 0, NoneVal)
    /\ args' = [NoArgs EXCEPT !.title = key, !.data = StrVal(value)]
    /\ Silent
    /\ UNCHANGED <<environ, secret, was_set, LoggingVars>>

\* the list of keys passed as allow_overwrite_keys
KeyList(keys) ==
    [t |-> "list", i |-> 0, s |-> "",
     kv |-> SelectSeq(<<"A", "B">>, LAMBDA k : k \in keys)]
\* a reference to the SecretCore object i
SecretRef(i) == [t |-> "SecretCore", i |-> i, s |-> "", kv |-> <<>>]
\* SecretStorageType.DOTENV
DOTENV == "dotenv"

\* a __new__ that creates an object on every call
secret_new_always(sec) ==
    [NoSecretCore EXCEPT !.instance = sec.made + 1, !.made = sec.made + 1]
\* cls(): __new__ creates the instance when there is none, __init__ sets its
\* fields only then
secret_new(sec) ==
    IF sec.instance = 0
    THEN [NoSecretCore EXCEPT !.instance = sec.made + 1, !.made = sec.made + 1]
    ELSE sec

\* SecretCore()
SecretCoreCall ==
    /\ pc = Idle
    /\ secret' = secret_new(secret)
    /\ ret' = Returned("SecretCore", 0, SecretRef(secret'.instance))
    /\ args' = NoArgs
    /\ Silent
    /\ UNCHANGED <<environ, dotenv, was_set, LoggingVars>>

\* SecretCore.get_instance
secret_get_instance(sec) ==
    IF sec.instance = 0 \/ ~sec.storage
    THEN Raised("secret.get_instance", 0, "RuntimeError")
    ELSE Returned("secret.get_instance", 0, SecretRef(sec.instance))

SecretGetInstance ==
    /\ pc = Idle
    /\ ret' = secret_get_instance(secret)
    /\ args' = NoArgs
    /\ Silent
    /\ UNCHANGED <<SecretVars, LoggingVars>>

\* an initialize that configures the instance on every call
initialize_again(sec) == TRUE
\* if instance.storage is None
initialize_needed(sec) == ~sec.storage

\* SecretCore.initialize(storage_type, allow_overwrite_keys, env_file_path=..):
\* only a call that finds no storage sets the type, creates the storage
\* (DotEnvStorage: load_dotenv without override; ValueError for another
\* type) and sets the allow-list
SecretInitialize(storage_type, allow, env_file_path) ==
    /\ pc = Idle
    /\ LET instance == secret_new(secret)
       IN  IF initialize_needed(instance)
           THEN IF storage_type = DOTENV
                THEN /\ secret' = [instance EXCEPT
                                      !.storage_type = storage_type,
                                      !.storage = TRUE,
                                      !.env_file_path = env_file_path,
                                      !.allow_overwrite_keys = allow]
                     /\ environ' = load_dotenv(environ, dotenv, FALSE)
                     /\ ret' = Returned("secret.initialize", 0,
                                       SecretRef(instance.instance))
                ELSE /\ secret' = [instance EXCEPT !.storage_type = storage_type]
                     /\ environ' = environ
                     /\ ret' = Raised("secret.initialize", 0, "ValueError")
           ELSE /\ secret' = instance
                /\ environ' = environ
                /\ ret' = Returned("secret.initialize", 0,
                                  SecretRef(instance.instance))
    /\ args' = [NoArgs EXCEPT !.title = env_file_path, !.key = StrVal(storage_type),
                             !.data = KeyList(allow)]
    /\ Silent
    /\ UNCHANGED <<dotenv, was_set, LoggingVars>>

\* SecretCore.get
secret_get(key) ==
    IF ~secret.storage THEN Raised("secret.get", 0, "RuntimeError")
    ELSE Returned("secret.get", 0, storage_load(environ, key))

SecretGet(key) ==
    /\ pc = Idle
    /\ ret' = secret_get(key)
    /\ args' = [NoArgs EXCEPT !.title = key]
    /\ Silent
    /\ UNCHANGED <<SecretVars, LoggingVars>>

\* the keys of the model in the order a mapping lists them
KeyOrder == <<"A", "B">>
\* DotEnvStorage.load_all: dotenv_values(path) without the None values
RECURSIVE storage_load_all(_, _)
storage_load_all(file, keys) ==
    IF keys = <<>> THEN <<>>
    ELSE (IF file[Head(keys)] # NoneVal THEN << <<Head(keys), file[Head(keys)]>> >>
          ELSE <<>>) \o storage_load_all(file, Tail(keys))

\* SecretCore.get_all
secret_get_all ==
    IF ~secret.storage THEN Raised("secret.get_all", 0, "RuntimeError")
    ELSE Returned("secret.get_all", 0, DictVal(storage_load_all(dotenv, KeyOrder)))

SecretGetAll ==
    /\ pc = Idle
    /\ ret' = secret_get_all
    /\ args' = NoArgs
    /\ Silent
    /\ UNCHANGED <<SecretVars, LoggingVars>>

\* SecretCore.require: value = self.get(key); ValueError when it is None
secret_require(key) ==
    LET got == secret_get(key)
    IN  IF got.exc # "None" THEN Raised("secret.require", 0, got.exc)
        ELSE IF got.value = NoneVal THEN Raised("secret.require", 0, "ValueError")
        ELSE Returned("secret.require", 0, got.value)

SecretRequire(key) ==
    /\ pc = Idle
    /\ ret' = secret_require(key)
    /\ args' = [NoArgs EXCEPT !.title = key]
    /\ Silent
    /\ UNCHANGED <<SecretVars, LoggingVars>>

\* existing_value is not None and key not in self._allow_overwrite_keys
set_refused(key) ==
    storage_load(environ, key) # NoneVal /\ key \notin secret.allow_overwrite_keys

\* SecretCore.set
SecretSet(key, value) ==
    /\ pc = Idle
    /\ IF ~secret.storage
       THEN /\ ret' = Raised("secret.set", 0, "RuntimeError")
            /\ UNCHANGED <<environ, dotenv, was_set>>
       ELSE IF set_refused(key)
       THEN /\ ret' = Raised("secret.set", 0, "ValueError")
            /\ UNCHANGED <<environ, dotenv, was_set>>
       ELSE LET saved == storage_save(environ, dotenv, key, value)
            IN  /\ environ' = saved.environ
                /\ dotenv' = saved.dotenv
                /\ was_set' = [was_set EXCEPT ![key] = StrVal(value)]
                /\ ret' = Returned("secret.set", 0, NoneVal)
    /\ args' = [NoArgs EXCEPT !.title = key, !.data = StrVal(value)]
    /\ Silent
    /\ UNCHANGED <<secret, LoggingVars>>

(***************************************************************************)
(* GoogleChatClient.  The client's logger is the one LoggerContext gave    *)
(* it; Http().request is httplib2's: it returns a response or raises.      *)
(***************************************************************************)
\* space_name.upper()
upper(space_name) ==
    CASE space_name \in {"space1", "Space1"} -> "SPACE1"
      [] space_name = "ops" -> "OPS"
env_key(space_name) == "GCHAT_WEBHOOK_" \o upper(space_name)

\* a test for the unset variable only
webhook_missing_unset(url) == url = NoneVal
\* if not url: the variable is unset or empty
webhook_missing(url) == url = NoneVal \/ url = StrVal("")

\* get_webhook_url: the URL, or None after an error record
get_webhook_url(o, self, env, space_name) ==
    LET url == env[env_key(space_name)]
    IN  IF webhook_missing(url)
        THEN [o |-> error(o, self, "Webhook URL not found in environment",
                          DictVal(<< <<"env_key", StrVal(env_key(space_name))>> >>)),
              url |-> NoneVal]
        ELSE [o |-> o, url |-> url]

\* json.dumps of a payload {"text": value}: the text for a string, TypeError
\* for an object json cannot serialise
json_dumps_raises(payload) == payload.kv[1][2].t # "str"
json_dumps(payload) ==
    "{\"" \o payload.kv[1][1] \o "\": \"" \o payload.kv[1][2].s \o "\"}"

\* the outcome of Http().request: a response (status is None for a response
\* without the attribute) or an exception
HttpResponse(status) == [raises |-> "None", status |-> status]
HttpRaises(exc) == [raises |-> exc, status |-> NoneVal]

\* send_message: [o, result, requests]
send_message(o, self, env, space_name, payload, http) ==
    LET got == get_webhook_url(o, self, env, space_name)
        failed(message) ==
            error(got.o, self, "Failed to send Google Chat message: " \o message,
                  DictVal(<< <<"space", StrVal(space_name)>>,
                             <<"error", StrVal(message)>> >>))
    IN  IF got.url = NoneVal
        THEN [o |-> got.o, result |-> FALSE, requests |-> 0]
        ELSE IF json_dumps_raises(payload)
        THEN [o |-> failed("Object is not JSON serializable"),
              result |-> FALSE, requests |-> 0]
        ELSE IF http.raises # "None"
        THEN [o |-> failed(http.raises), result |-> FALSE, requests |-> 1]
        ELSE [o |-> debug(got.o, self, "Google Chat message sent",
                          DictVal(<< <<"space", StrVal(space_name)>>,
                                     <<"status_code",
                                       IF http.status = NoneVal
                                       THEN StrVal("unknown") ELSE http.status>>,
                                     <<"payload_size",
                                       IntVal(Len(json_dumps(payload)))>> >>)),
              result |-> TRUE, requests |-> 1]

\* payload = {"text": f"*{title}*\n{message}"}
text_payload(title, message) ==
    DictVal(<< <<"text", StrVal("*" \o title \o "*\n" \o message)>> >>)

\* send_text_message: [o, result, requests, inner]; inner is what
\* send_message returned
send_text_message(o, self, env, space_name, title, message, http) ==
    LET sm == send_message(o, self, env, space_name,
                           text_payload(title, message), http)
    IN  [o |-> IF sm.result
               THEN info(sm.o, self, "Text message sent to Google Chat",
                         DictVal(<< <<"title", StrVal(title)>>,
                                    <<"space", StrVal(space_name)>> >>))
               ELSE sm.o,
         result |-> sm.result, requests |-> sm.requests, inner |-> sm.result]

\* os.environ[key] = value, or del os.environ[key] for None
WebhookSet(key, value) ==
    /\ pc = Idle
    /\ chat' = [chat EXCEPT !.environ[key] = value]
    /\ ret' = Returned("webhook", 0, NoneVal)
    /\ printed' = <<>> /\ logged' = <<>>
    /\ args' = NoArgs
    /\ UNCHANGED <<environ, dotenv, secret, was_set, configs, loggers, handlers,
                   channels, files, stdin, ctx, pc, sent, hist, LogItemVars>>

\* client.send_message(space_name, payload) on a client whose logger is l
SendMessage(l, space_name, payload, http) ==
    /\ pc = Idle /\ Live(l) /\ Room
    /\ LET r == send_message(Out0, Self(l), chat.environ, space_name, payload, http)
       IN  /\ printed' = r.o.printed
           /\ files' = r.o.files
           /\ logged' = r.o.logged
           /\ sent' = Sent(l, r.o)
           /\ chat' = [chat EXCEPT !.requests = r.requests, !.result = r.result]
           /\ ret' = Returned("send_message", l, BoolVal(r.result))
    /\ args' = [NoArgs EXCEPT !.title = space_name, !.data = payload,
                              !.key = StrVal(http.raises)]
    /\ UNCHANGED <<environ, dotenv, secret, was_set, configs, loggers, handlers,
                   channels, stdin, ctx, pc, hist, LogItemVars>>

\* client.send_text_message(space_name, title, message)
SendTextMessage(l, space_name, title, message, http) ==
    /\ pc = Idle /\ Live(l) /\ Room
    /\ LET r == send_text_message(Out0, Self(l), chat.environ, space_name,
                                  title, message, http)
       IN  /\ printed' = r.o.printed
           /\ files' = r.o.files
           /\ logged' = r.o.logged
           /\ sent' = Sent(l, r.o)
           /\ chat' = [chat EXCEPT !.requests = r.requests, !.result = r.inner]
           /\ ret' = Returned("send_text_message", l, BoolVal(r.result))
    /\ args' = [NoArgs EXCEPT !.title = space_name,
                              !.data = text_payload(title, message),
                              !.key = StrVal(http.raises)]
    /\ UNCHANGED <<environ, dotenv, secret, was_set, configs, loggers, handlers,
                   channels, stdin, ctx, pc, hist, LogItemVars>>

(***************************************************************************)
(* Specifications.  Next is every operation; the others are the parts of   *)
(* it that one group of properties is about, with the inputs they need.    *)
(***************************************************************************)
PathArgs == Paths \cup {NoPath}

\* the responses a user may type
RECURSIVE SeqsUpTo(_, _)
SeqsUpTo(S, n) ==
    IF n = 0 THEN {<<>>}
    ELSE LET shorter == SeqsUpTo(S, n - 1)
         IN  shorter \cup {Append(q, x) : q \in shorter, x \in S}
Responses == SeqsUpTo({"y", "Y", "e", "s"} \cup Whitespace, MaxResp)
Passwords == SeqsUpTo({"a", "*"}, MaxResp)

\* the tables summary may be given: rows of distinct labels
Labels == {"", "A", "Total"}
SummaryItem(label) ==
    [label |-> label, value |-> IF label = "Total" THEN 12 ELSE 3,
     color |-> IF label = "A" THEN "<GREEN>" ELSE ""]
SummaryItems ==
    {its \in SeqsUpTo({SummaryItem(b) : b \in Labels}, MaxItems) :
        \A j, k \in 1..Len(its) : j # k => its[j].label # its[k].label}
TotalKeys == {NoneVal, StrVal(""), StrVal("Total"), StrVal("Z")}
\* the contexts a LogItem may carry: nothing, scalars, an opaque object,
\* mappings and pair iterables of up to MaxEntries entries, and iterables
\* whose reading as pairs fails
EntryKeys == {"k", "n", "z"}
EntryValue(key) ==
    CASE key = "k" -> StrVal("v")
      [] key = "n" -> IntVal(42)
      [] OTHER -> BoolVal(TRUE)
Entries ==
    {[j \in 1..Len(ks) |-> <<ks[j], EntryValue(ks[j])>>] :
        ks \in {q \in SeqsUpTo(EntryKeys, MaxEntries) :
                   \A i, j \in 1..Len(q) : i # j => q[i] # q[j]}}
IterationErrors == CaughtErrors \cup {"RuntimeError"}
Contexts ==
    {NoneVal, StrVal("ctx"), IntVal(42), BoolVal(FALSE), FloatVal("1.5"), ObjectVal}
        \cup {DictVal(e) : e \in Entries}
        \cup {IterVal(e, "") : e \in Entries}
        \cup {OneShotVal(e) : e \in Entries}
        \cup {IterVal(<<>>, x) : x \in IterationErrors}

\* what a failing flush, close or removeHandler raises
CleanupErrors == {"OSError", "ValueError", "RuntimeError"}
\* the values of secrets
Secrets == {"x", "y"}
\* the storage types a caller passes (the second is not supported) and the
\* .env paths
StorageTypes == {DOTENV, "database"}
EnvFiles == {".env", "b.env"}
\* the command lines: two parts, each nothing, an option (with a value
\* argparse accepts or rejects, or without one) or a word of the caller's
ArgvParts ==
    {<<>>, <<"--log-level", "10">>, <<"--log-level", "100">>, <<"--log-level", "5">>, <<"--log-level">>,
     <<"--log-file", "a.log">>, <<"input.txt">>}
Argvs == {first \o second : first, second \in ArgvParts}
\* the spaces, webhook values, payloads and HTTP outcomes of the chat client
Spaces == {"space1", "Space1", "ops"}
WebhookValues == {NoneVal, StrVal(""), StrVal("https://chat.test/hook")}
Payloads == {DictVal(<< <<"text", StrVal("hi")>> >>),
             DictVal(<< <<"text", ObjectVal>> >>)}
HttpOutcomes ==
    {HttpResponse(IntVal(200)), HttpResponse(NoneVal),
     HttpRaises("Exception"), HttpRaises("OSError")}
ConfigArgs ==
    {NoConfigArg}
        \cup {NewConfigArg(v, p, d) : v \in {logging_INFO, DEBUG}, p \in PathArgs,
                                      d \in BOOLEAN}
        \cup {SharedConfigArg(c) : c \in LoggerIds}

Construction ==
    \/ \E l \in LoggerIds, n \in Names, p \in PathArgs, ca \in ConfigArgs :
          StructuredLoggerInit(l, n, p, ca)
    \/ \E l \in LoggerIds, n \in Names, p \in Paths, ca \in ConfigArgs :
          StructuredLoggerInitFails(l, n, p, ca)

Next ==
    \/ Construction
    \/ \E l \in LoggerIds, m \in LevelMethods : CallLevelMethod(l, m, "m", NoneVal)
    \/ \E l \in LoggerIds, v \in LogLevel : CallSetLevel(l, v)
    \/ \E c \in LoggerIds, d \in BOOLEAN : ConfigSetDryRun(c, d)
    \/ \E l \in LoggerIds : CallClose(l)
    \/ \E l \in LoggerIds : Enter(l)
    \/ \E l \in LoggerIds, how \in BlockExits : Exit(l, how)
    \/ \E l \in LoggerIds : Del(l)
    \/ \E l \in LoggerIds, step \in CleanupSteps, exc \in CleanupErrors :
          DelRaising(l, step, exc)
    \/ \E l \in LoggerIds, last \in BOOLEAN : InitializeWith(l, last)
    \/ \E l \in LoggerIds, last \in BOOLEAN : InitializeDefault(l, last)
    \/ GetLogger
    \/ IsInitialized
    \/ \E last \in BOOLEAN : ResetContext(last)
    \/ \E l \in LoggerIds, pw \in BOOLEAN : AskRequest(l, "p", pw)
    \/ \E r \in Passwords : AskResponse(r)
    \/ \E l \in LoggerIds, d \in BOOLEAN : ConfirmRequest(l, "p", d)
    \/ \E r \in Responses : ConfirmResponse(r)
    \/ \E l \in LoggerIds, its \in SummaryItems, k \in TotalKeys :
          CallSummary(l, "Report", its, k)
    \/ \E k \in ItemIds, c \in Contexts, v \in LogLevel : NewLogItem(k, "Msg", c, v)
    \/ \E k \in ItemIds : CallFormatConsole(k)
    \/ \E k \in ItemIds : CallFormatFile(k)
    \/ \E k \in ItemIds : CallStr(k)
    \/ \E k \in ItemIds : StructuredErrorOfItem(k)
    \/ \E k \in ItemIds, m \in {"Msg", "Oops"} : StructuredErrorOfString(k, m)
    \/ ErrorStr
    \/ \E k \in Keys, v \in Secrets : EnvironSet(k, v)
    \/ \E k \in Keys, v \in Secrets : DotEnvWritten(k, v)
    \/ \E allow \in SUBSET Keys : SecretInitialize(DOTENV, allow, ".env")
    \/ \E k \in Keys : SecretGet(k)
    \/ \E k \in Keys, v \in Secrets : SecretSet(k, v)
    \/ \E k \in Keys : SecretRequire(k)
    \/ SecretGetAll
    \/ \E st \in StorageTypes, allow \in SUBSET Keys, p \in EnvFiles :
          SecretInitialize(st, allow, p)
    \/ SecretCoreCall
    \/ SecretGetInstance
    \/ \E l \in LoggerIds, n \in Names, p \in PathArgs, argv \in Argvs :
          StructuredLoggerInitDetected(l, n, p, argv)
    \/ \E k \in EnvKeys, v \in WebhookValues : WebhookSet(k, v)
    \/ \E l \in LoggerIds, sp \in Spaces, pl \in Payloads, http \in HttpOutcomes :
          SendMessage(l, sp, pl, http)
    \/ \E l \in LoggerIds, sp \in Spaces, http \in HttpOutcomes :
          SendTextMessage(l, sp, "Alert", "down", http)

Spec == Init /\ [][Next]_vars

\* one logger, every configuration: the level methods and set_level
ConfigLevels == {-1, 0, logging_INFO, 99, 100, 101}
LevelContexts == {NoneVal, DictVal(<< <<"id", IntVal(123)>> >>)}
OneLogger(PathSet, ConfigSet) ==
    \E p \in PathSet, ca \in ConfigSet :
        /\ \A l \in LoggerIds : loggers[l].state = "unborn"
        /\ StructuredLoggerInit(1, "app", p, ca)

LevelConfigArgs ==
    {NoConfigArg}
        \cup {NewConfigArg(v, p, d) : v \in ConfigLevels, p \in {NoPath, "a.log"},
                                      d \in BOOLEAN}
NextLevels ==
    \/ OneLogger({NoPath, "a.log"}, LevelConfigArgs)
    \/ \E l \in LoggerIds, m \in LevelMethods, data \in LevelContexts :
          CallLevelMethod(l, m, "m", data)
    \/ \E l \in LoggerIds, v \in LogLevel : CallSetLevel(l, v)

SpecLevels == Init /\ [][NextLevels]_vars

\* one logger and its interactive reads
InteractiveConfigArgs ==
    {NewConfigArg(v, p, d) : v \in {logging_INFO, DEBUG}, p \in {NoPath, "a.log"},
                             d \in BOOLEAN}
NextAsk ==
    \/ OneLogger({NoPath}, InteractiveConfigArgs)
    \/ \E l \in LoggerIds, pw \in BOOLEAN : AskRequest(l, "p", pw)
    \/ \E r \in Passwords : AskResponse(r)
    \/ \E l \in LoggerIds, d \in BOOLEAN : ConfirmRequest(l, "p", d)
    \/ \E r \in Responses : ConfirmResponse(r)

SpecAsk == Init /\ [][NextAsk]_vars

\* one logger and its summary tables
NextSummary ==
    \/ OneLogger({NoPath}, InteractiveConfigArgs)
    \/ \E l \in LoggerIds, its \in SummaryItems, k \in TotalKeys :
          CallSummary(l, "Report", its, k)

SpecSummary == Init /\ [][NextSummary]_vars

\* loggers with and without files, sharing names or not: writes and close
FileConfigArgs == {NoConfigArg, NewConfigArg(DEBUG, "a.log", FALSE)}

NextFiles ==
    \/ \E l \in LoggerIds, n \in Names, p \in PathArgs, ca \in FileConfigArgs :
          StructuredLoggerInit(l, n, p, ca)
    \/ \E l \in LoggerIds, n \in Names, p \in Paths :
          StructuredLoggerInitFails(l, n, p, NoConfigArg)
    \/ \E l \in LoggerIds, m \in {"info", "debug"} :
          CallLevelMethod(l, m, "m", NoneVal)
    \/ \E l \in LoggerIds : CallClose(l)

SpecFiles == Init /\ [][NextFiles]_vars

\* loggers of one name, with and without a file, logging and closing
NextClosed ==
    \/ \E l \in LoggerIds, p \in PathArgs, ca \in FileConfigArgs :
          StructuredLoggerInit(l, DefaultName, p, ca)
    \/ \E l \in LoggerIds, m \in {"info", "debug"} :
          CallLevelMethod(l, m, "m", NoneVal)
    \/ \E l \in LoggerIds : CallClose(l)

SpecClosed == Init /\ [][NextClosed]_vars

\* the ways a logger's resources are released
NextRelease ==
    \/ \E l \in LoggerIds, n \in Names, p \in PathArgs :
          StructuredLoggerInit(l, n, p, NoConfigArg)
    \/ \E l \in LoggerIds : CallClose(l)
    \/ \E l \in LoggerIds : Enter(l)
    \/ \E l \in LoggerIds, how \in BlockExits : Exit(l, how)
    \/ \E l \in LoggerIds : Del(l)

SpecRelease == Init /\ [][NextRelease]_vars

\* the shared context
NextContext ==
    \/ \E l \in LoggerIds, n \in Names, p \in {NoPath, "a.log"} :
          StructuredLoggerInit(l, n, p, NoConfigArg)
    \/ \E l \in LoggerIds : CallClose(l)
    \/ \E l \in LoggerIds : Del(l)
    \/ \E l \in LoggerIds, last \in BOOLEAN : InitializeWith(l, last)
    \/ \E l \in LoggerIds, last \in BOOLEAN : InitializeDefault(l, last)
    \/ GetLogger
    \/ IsInitialized
    \/ \E last \in BOOLEAN : ResetContext(last)

SpecContext == Init /\ [][NextContext]_vars

\* one LogItem of every shape and its renderings
NextFormat ==
    \/ \E c \in Contexts : NewLogItem(1, "Msg", c, INFO)
    \/ \E k \in ItemIds : CallFormatConsole(k)
    \/ \E k \in ItemIds : CallFormatFile(k)
    \/ \E k \in ItemIds : CallStr(k)

SpecFormat == Init /\ [][NextFormat]_vars

\* errors made of items and of strings
ErrorContexts ==
    {NoneVal, DictVal(<< <<"code", IntVal(404)>> >>), IterVal(<<>>, "RuntimeError"),
     OneShotVal(<< <<"code", IntVal(404)>> >>)}
NextError ==
    \/ \E k \in ItemIds, c \in ErrorContexts, v \in {INFO, ERROR} :
          NewLogItem(k, "Msg", c, v)
    \/ \E k \in ItemIds : StructuredErrorOfItem(k)
    \/ \E k \in ItemIds, m \in {"Msg", "Oops"} : StructuredErrorOfString(k, m)
    \/ ErrorStr
    \/ \E k \in ItemIds : CallFormatConsole(k)

SpecError == Init /\ [][NextError]_vars

\* one logger, its level methods, and its config's dry_run flag reassigned
NextDryRun ==
    \/ OneLogger({NoPath}, InteractiveConfigArgs)
    \/ \E l \in LoggerIds, m \in LevelMethods, d \in LevelContexts :
            CallLevelMethod(l, m, "m", d)
    \/ \E c \in LoggerIds, d \in BOOLEAN : ConfigSetDryRun(c, d)

SpecDryRun == Init /\ [][NextDryRun]_vars

\* loggers of one name given a.log and their own rotation limits: a limit
\* that every record reaches, and one that the second record of a file reaches
RotationLimits == {1, 2 * (Len(AscTime \o ", m") + 1)}
RotatingConfigArgs ==
    {RotatingConfigArg(NoPath, mb, bc) : mb \in RotationLimits, bc \in 1..MaxBackups}
NextRotate ==
    \/ \E l \in LoggerIds, ca \in RotatingConfigArgs :
          StructuredLoggerInit(l, "app", "a.log", ca)
    \/ \E l \in LoggerIds : CallLevelMethod(l, "info", "m", NoneVal)

SpecRotate == Init /\ [][NextRotate]_vars

\* loggers with and without files that are closed, or die with handlers
\* whose release succeeds or fails
NextDel ==
    \/ \E l \in LoggerIds, n \in Names, p \in {NoPath, "a.log"} :
          StructuredLoggerInit(l, n, p, NoConfigArg)
    \/ \E l \in LoggerIds : CallClose(l)
    \/ \E l \in LoggerIds : Del(l)
    \/ \E l \in LoggerIds, step \in CleanupSteps, exc \in CleanupErrors :
          DelRaising(l, step, exc)

SpecDel == Init /\ [][NextDel]_vars

\* the secret store over an environment and a .env file that hold any of the
\* keys, or none, when the store is initialized
NextSecret ==
    \/ \E k \in Keys, v \in Secrets : EnvironSet(k, v)
    \/ \E k \in Keys, v \in Secrets : DotEnvWritten(k, v)
    \/ \E allow \in SUBSET Keys : SecretInitialize(DOTENV, allow, ".env")
    \/ \E k \in Keys : SecretGet(k)
    \/ \E k \in Keys, v \in Secrets : SecretSet(k, v)

SpecSecret == Init /\ [][NextSecret]_vars

\* the secret store read in each way after sets that succeed or are refused
NextSecretRead ==
    \/ \E k \in Keys, v \in Secrets : EnvironSet(k, v)
    \/ \E k \in Keys, v \in Secrets : DotEnvWritten(k, v)
    \/ \E allow \in SUBSET Keys : SecretInitialize(DOTENV, allow, ".env")
    \/ \E k \in Keys, v \in Secrets : SecretSet(k, v)
    \/ \E k \in Keys : SecretGet(k)
    \/ \E k \in Keys : SecretRequire(k)
    \/ SecretGetAll

SpecSecretRead == Init /\ [][NextSecretRead]_vars

\* the singleton obtained in each way, before and after initialize calls of
\* every kind
NextSingleton ==
    \/ \E st \in StorageTypes, allow \in SUBSET Keys, p \in EnvFiles :
          SecretInitialize(st, allow, p)
    \/ SecretCoreCall
    \/ SecretGetInstance
    \/ \E k \in Keys, v \in Secrets : SecretSet(k, v)

SpecSingleton == Init /\ [][NextSingleton]_vars

\* loggers made from the config of a command line, and their use
NextDetect ==
    \/ \E l \in LoggerIds, p \in {NoPath, "logs/b.log"}, argv \in Argvs :
          StructuredLoggerInitDetected(l, DefaultName, p, argv)
    \/ \E l \in LoggerIds : CallLevelMethod(l, "debug", "m", NoneVal)

SpecDetect == Init /\ [][NextDetect]_vars

\* a chat client over a logger that records debug messages or does not
NextChat ==
    \/ StructuredLoggerInit(1, DefaultName, NoPath, NoConfigArg)
    \/ StructuredLoggerInit(1, DefaultName, "a.log",
                            NewConfigArg(DebugThreshold, NoPath, FALSE))
    \/ \E k \in EnvKeys, v \in WebhookValues : WebhookSet(k, v)
    \/ \E sp \in {"space1", "Space1"}, pl \in Payloads, http \in HttpOutcomes :
          SendMessage(1, sp, pl, http)
    \/ \E sp \in {"space1", "ops"}, http \in HttpOutcomes :
          SendTextMessage(1, sp, "Alert", "down", http)

SpecChat == Init /\ [][NextChat]_vars

\* loggers made from a LogConfig of the caller's that names no file:
\* one just made, or the one an earlier logger was given
CallerConfigArgs ==
    {NewConfigArg(logging_INFO, NoPath, FALSE)}
        \cup {SharedConfigArg(c) : c \in LoggerIds}
NextShared ==
    \/ \E l \in LoggerIds, n \in Names, p \in PathArgs, ca \in CallerConfigArgs :
          StructuredLoggerInit(l, n, p, ca)
    \/ \E l \in LoggerIds : CallLevelMethod(l, "info", "m", NoneVal)
    \/ \E l \in LoggerIds : CallClose(l)

SpecShared == Init /\ [][NextShared]_vars

\* one file-backed logger given contexts of every iterable kind
IterableContexts ==
    {DictVal(e) : e \in Entries} \cup {IterVal(e, "") : e \in Entries}
        \cup {OneShotVal(e) : e \in Entries}
NextOneShot ==
    \/ OneLogger({"a.log"}, {NoConfigArg})
    \/ \E l \in LoggerIds, m \in {"info", "error"}, d \in IterableContexts :
          CallLevelMethod(l, m, "m", d)

SpecOneShot == Init /\ [][NextOneShot]_vars

(***************************************************************************)
(* Properties                                                              *)
(***************************************************************************)
FileOf(l) == configs[loggers[l].config].log_file
FileConfigured(l) == Live(l) /\ FileOf(l) # NoPath
Line(message) == AscTime \o ", " \o message

\* C2 (as claimed): once a logger constructed with a log file has been
\* closed, its log file exists and holds a record for every message the
\* logger's level methods emitted before the close, whatever other loggers
\* exist, those of the same name included.
C2_FileHoldsEveryMessage ==
    \A l \in LoggerIds :
        (FileConfigured(l) /\ loggers[l].closed) =>
            \A m \in sent[l] : InSeq(files[FileOf(l)].lines, Line(m))

\* C3: over any sequence of close(), context-manager exit and end-of-life
\* cleanup, a handler a logger installed is flushed, closed and detached
\* exactly once, by the first of them: never twice, and once the logger has
\* been closed or has died its handler list is empty and its handler is
\* released; a later close() raises nothing.
C3_ReleasedExactlyOnce ==
    \A l \in LoggerIds :
        /\ handlers[l].flushes <= 1
        /\ handlers[l].closes <= 1
        /\ handlers[l].removes <= 1
        /\ handlers[l].state = "open" =>
              /\ handlers[l].flushes = 0 /\ handlers[l].closes = 0
              /\ handlers[l].removes = 0
              /\ loggers[l].handlers = <<l>>
        /\ (loggers[l].closed \/ loggers[l].state = "dead") =>
              /\ loggers[l].handlers = <<>>
              /\ handlers[l].state # "open"
              /\ handlers[l].state = "closed" =>
                    /\ handlers[l].flushes = 1 /\ handlers[l].closes = 1
                    /\ handlers[l].removes = 1
                    /\ \A n \in Names : ~InSeq(channels[n], l)
        /\ (ret.op \in {"close", "del"} /\ ret.logger = l) => ret.exc = "None"

\* a close() after the context manager has already closed the logger, whose
\* file handler stays released once
C3_Witness ==
    \E l \in LoggerIds :
        /\ loggers[l].scope = "left"
        /\ ret = Returned("close", l, NoneVal)
        /\ handlers[l].closes = 1

\* C4: when a with block on a logger has been left, by normal completion,
\* by return or by an exception, close() has run: the logger's handler list
\* is empty and its file handler is closed and detached.
C4_ClosedOnEveryExit ==
    \A l \in LoggerIds :
        (loggers[l].scope = "left" \/ (ret.op = "exit" /\ ret.logger = l)) =>
            /\ loggers[l].closed
            /\ loggers[l].handlers = <<>>
            /\ handlers[l].state # "open"
            /\ \A n \in Names : ~InSeq(channels[n], l)

\* a block over a file-backed logger left by an exception
C4_Witness ==
    \E l \in LoggerIds :
        /\ ret = Raised("exit", l, "BlockError")
        /\ handlers[l].state = "closed"
        /\ loggers[l].scope = "left"

\* C5: every logger owns at most one file handler and every named channel
\* holds at most one, however many loggers are constructed with that name.
C5_AtMostOneFileHandler ==
    /\ \A l \in LoggerIds : Len(loggers[l].handlers) <= 1
    /\ \A n \in Names : Len(channels[n]) <= 1

\* two live loggers of one name, each configured with a log file
C5_Witness ==
    \E l1, l2 \in LoggerIds :
        /\ l1 # l2
        /\ FileConfigured(l1) /\ FileConfigured(l2)
        /\ loggers[l1].name = loggers[l2].name
        /\ Len(channels[loggers[l1].name]) = 1

\* C6: get_logger raises RuntimeError exactly when no initialize has
\* happened since the start or the last reset, and otherwise returns the
\* logger the most recent initialize stored and returned (the one supplied,
\* or a newly constructed default one); is_initialized is true exactly then.
C6_ContextFollowsInitialize ==
    /\ ret.op = "get_logger" =>
          IF hist = 0 THEN ret = Raised("get_logger", 0, "RuntimeError")
          ELSE ret = Returned("get_logger", 0, LoggerRef(hist))
    /\ ret.op = "is_initialized" => ret.value = BoolVal(hist # 0)
    /\ ret.op = "initialize" =>
          /\ hist # 0 /\ Live(hist)
          /\ ret.exc = "None" /\ ret.value = LoggerRef(hist)
          /\ ret.logger # 0 => hist = ret.logger
          /\ ret.logger = 0 =>
                /\ loggers[hist].name = DefaultName
                /\ configs[loggers[hist].config] = DefaultLogConfig

\* get_logger answered with a default logger that initialize() constructed
C6_Witness ==
    /\ ret.op = "get_logger" /\ ret.exc = "None"
    /\ hist # 0
    /\ ret.value = LoggerRef(hist)
    /\ \E l \in LoggerIds : l # hist /\ Live(l)

FileEndsWith(path, records) ==
    LET lines == files[path].lines
        n == Len(records)
    IN  /\ Len(lines) >= n
        /\ \A k \in 1..n : lines[Len(lines) - n + k] = Line(records[k].message)
LevelOf(m) ==
    CASE m = "info" -> INFO
      [] m = "notice" -> NOTICE
      [] m = "warning" -> WARNING
      [] m = "error" -> ERROR
      [] m = "success" -> SUCCESS
      [] m = "debug" -> DEBUG
\* what one emitted entry puts on the console and hands to the file channel
ConsoleLine(l, item) ==
    LET m == ConsoleMarker(item.level)
    IN  m[2] \o m[1] \o " " \o loggers[l].prefix \o format_console(item) \o Reset
FileRecord(l, item) ==
    [level |-> FILE_LOG_LEVEL_MAP(item.level),
     message |-> loggers[l].prefix \o format_file(item)]
Emitted(l, items) ==
    /\ printed = [k \in 1..Len(items) |-> ConsoleLine(l, items[k])]
    /\ logged = IF FileOf(l) = NoPath THEN <<>>
                ELSE [k \in 1..Len(items) |-> FileRecord(l, items[k])]
    /\ FileOf(l) # NoPath => FileEndsWith(FileOf(l), logged)

C8_ConfirmAcceptsYPrefix ==
    ret.op = "confirm" =>
        LET response == strip(stdin)
        IN  ret.value = BoolVal(IF response = <<>> THEN args.flag
                                ELSE Head(response) \in {"y", "Y"})

\* C9: ask(prompt, password=True) returns the response unchanged; while the
\* read blocks only the info entry announcing the request is out; afterwards
\* the console and the file hold that entry followed, at level >= 100, by one
\* DEBUG entry whose value is as many asterisks as the response is long, and
\* nothing else, so the response itself is in neither.
C9_PasswordMasked ==
    LET requested == LogItem("User input requested", StrVal(args.title), INFO)
        captured ==
            LogItem("User input captured",
                    DictVal(<< <<"prompt", StrVal(args.title)>>,
                               <<"value", StrVal(Repeat("*", Len(stdin)))>> >>),
                    DEBUG)
    IN  /\ (pc.op = "ask" /\ args.flag) =>
              /\ ret = Waiting(pc.logger)
              /\ Emitted(pc.logger, <<requested>>)
        /\ (ret.op = "ask" /\ args.flag) =>
              /\ ret = Returned("ask", ret.logger, StrVal(JoinChars(stdin)))
              /\ Emitted(ret.logger,
                         IF configs[loggers[ret.logger].config].level >= DebugThreshold
                         THEN <<requested, captured>> ELSE <<requested>>)

\* a two-letter password returned by a file-backed logger at DEBUG level
C9_Witness ==
    \E l \in LoggerIds :
        /\ ret = Returned("ask", l, StrVal("a*"))
        /\ args.flag
        /\ FileConfigured(l)
        /\ Len(printed) = 2 /\ Len(logged) = 2

\* what summary prints and records, given the test that marks the total row
SummaryOutput(IsTotal(_, _)) ==
    ret.op = "summary" =>
        LET l == ret.logger
            items == args.items
            n == Len(items)
            Total(k) == IsTotal(args.key, items[k].label)
            dividers(k) == Cardinality({j \in 1..k : Total(j)})
            entry == LogItem(args.title,
                             DictVal([k \in 1..n |->
                                        <<items[k].label, IntVal(items[k].value)>>]),
                             INFO)
        IN  /\ Len(Separator) = 50
            /\ Len(printed) = 4 + n + dividers(n)
            /\ printed[1] = "\n" \o Separator
            /\ printed[2] = args.title
            /\ printed[3] = Separator
            /\ printed[Len(printed)] = Separator \o "\n"
            /\ \A k \in 1..n :
                  /\ printed[3 + k + dividers(k)] = SummaryRow(items[k])
                  /\ Total(k) => printed[2 + k + dividers(k)] = Divider
            /\ logged = IF FileOf(l) = NoPath THEN <<>> ELSE <<FileRecord(l, entry)>>
            /\ FileOf(l) # NoPath => FileEndsWith(FileOf(l), logged)

\* C10 (as claimed): summary prints one row per item in insertion order
\* between two 50-character rules, a divider immediately before the row whose
\* label equals total_key and nowhere else, and records one file-only entry
\* mapping every label to its value.
C10_DividerBeforeTotalKey ==
    SummaryOutput(LAMBDA total_key, label : total_key.t = "str" /\ label = total_key.s)

\* C10 (amended): as above, with the divider before the row whose label
\* equals a total_key that is given and not empty (an empty total_key marks no
\* row, a row labelled "" included), and the one file-only entry recorded
\* when the logger has a log file.
C10_DividerBeforeNonEmptyTotalKey ==
    SummaryOutput(LAMBDA total_key, label :
                      total_key.t = "str" /\ total_key.s # "" /\ label = total_key.s)

\* the table of A and Total with total_key "Total", on a file-backed logger
C10_Witness ==
    \E l \in LoggerIds :
        /\ ret = Returned("summary", l, NoneVal)
        /\ FileConfigured(l)
        /\ args.key = StrVal("Total")
        /\ Len(args.items) = 2
        /\ args.items[2].label = "Total"
        /\ printed[5] = Divider
        /\ Len(logged) = 1

\* the contexts whose reading the renderers specify: nothing, a scalar, a
\* mapping or an iterable of pairs
Readable(c) == c.t = "none" \/ IsScalar(c) \/ (IsDictLike(c) /\ pairs_error(c) = "")
\* v in single quotes if it is a string, its plain string form otherwise
Quoted(v) == IF v.t = "str" THEN "'" \o v.s \o "'" ELSE PyStr(v)
RECURSIVE BulletLines(_)
BulletLines(kv) ==
    IF kv = <<>> THEN ""
    ELSE "\n  - " \o kv[1][1] \o "=" \o Quoted(kv[1][2]) \o BulletLines(Tail(kv))
RECURSIVE CommaEntries(_)
CommaEntries(kv) ==
    IF kv = <<>> THEN ""
    ELSE ", " \o kv[1][1] \o "=" \o Quoted(kv[1][2]) \o CommaEntries(Tail(kv))

\* C11: format_console() returns the message when there is no context,
\* "message: context" for a scalar, the message alone for an empty mapping,
\* "message: key=v" for a mapping of one entry, and "message:" followed by one
\* line "  - key=v" per entry in iteration order for a larger one, v quoted
\* when it is a string; str(item) is the same text.
C11_ConsoleRendering ==
    (ret.op \in {"format_console", "str"} /\ Readable(args.data)) =>
        LET c == args.data
            n == Len(c.kv)
        IN  ret = Returned(ret.op, 0, StrVal(
                CASE c.t = "none" -> args.title
                  [] IsScalar(c) -> args.title \o ": " \o PyStr(c)
                  [] OTHER ->
                       IF n = 0 THEN args.title
                       ELSE IF n = 1
                            THEN args.title \o ": " \o c.kv[1][1] \o "="
                                     \o Quoted(c.kv[1][2])
                       ELSE args.title \o ":" \o BulletLines(c.kv)))

\* the block rendering of a mapping of two entries
C11_Witness ==
    /\ ret = Returned("format_console", 0, StrVal("Msg:\n  - k='v'\n  - n=42"))
    /\ args.data = DictVal(<< <<"k", StrVal("v")>>, <<"n", IntVal(42)>> >>)

\* C12: format_file() returns the message when there is no context,
\* "message, context" for a scalar, and for a mapping of at least one entry
\* the one line "message" followed by ", key=value" per entry in iteration
\* order, string values quoted: the formatter adds no line break.
C12_FileRendering ==
    (ret.op = "format_file" /\ Readable(args.data)) =>
        LET c == args.data
        IN  /\ ret.exc = "None"
            /\ c.t = "none" => ret.value = StrVal(args.title)
            /\ IsScalar(c) => ret.value = StrVal(args.title \o ", " \o PyStr(c))
            /\ (IsDictLike(c) /\ Len(c.kv) >= 1) =>
                  ret.value = StrVal(args.title \o CommaEntries(c.kv))

\* the one-line rendering of a mapping of two entries
C12_Witness ==
    /\ ret = Returned("format_file", 0, StrVal("Msg, k='v', n=42"))
    /\ args.data = DictVal(<< <<"k", StrVal("v")>>, <<"n", IntVal(42)>> >>)

\* C13 (as claimed): format_console() and format_file() raise nothing for
\* any context, and whenever reading the context as key/value pairs fails,
\* with whatever error, they return the scalar-style rendering.
C13_RenderingNeverRaises ==
    ret.op \in {"format_console", "format_file", "str"} =>
        /\ ret.exc = "None"
        /\ pairs_error(args.data) # "" =>
              ret.value = StrVal(args.title
                                 \o (IF ret.op = "format_file" THEN ", " ELSE ": ")
                                 \o PyStr(args.data))

WithoutFileEntry(l) ==
    LogItem("Logger initialised without log file",
            DictVal(<< <<"name", StrVal(loggers[l].name)>> >>), INFO)
ConfiguredEntry(l) ==
    LET cfg == configs[loggers[l].config]
    IN  LogItem("Logger initialised",
                DictVal(<< <<"level", IntVal(cfg.level)>>,
                           <<"log_file", PathVal(cfg.log_file)>>,
                           <<"dry_run", BoolVal(cfg.dry_run)>> >>),
                DEBUG)

\* C14 (as claimed): every construction emits the two bootstrap entries,
\* 'initialised without log file' and 'Logger initialised', whatever
\* log_file_path, config.log_file and config.level are.
C14_TwoBootstrapEntries ==
    (ret.op = "init" /\ ret.exc = "None") =>
        Emitted(ret.logger, <<WithoutFileEntry(ret.logger), ConfiguredEntry(ret.logger)>>)

\* C14 (amended): a construction emits the 'initialised without log file'
\* entry exactly when the log_file_path argument is None (config.log_file may
\* still name a file), and then the 'Logger initialised' entry exactly when
\* config.level >= 100: two entries, one or none.
C14_BootstrapEntriesByArguments ==
    [][\A l \in LoggerIds, n \in Names :
          (ret' = Returned("init", l, LoggerRef(l)) /\ loggers'[l].name = n) =>
              \A p \in PathArgs, ca \in LevelConfigArgs :
                  StructuredLoggerInit(l, n, p, ca) =>
                      (Emitted(l, (IF p = NoPath THEN <<WithoutFileEntry(l)>> ELSE <<>>)
                                  \o (IF configs[loggers[l].config].level
                                            >= DebugThreshold
                                      THEN <<ConfiguredEntry(l)>> ELSE <<>>)))']_vars

\* a logger given a log_file_path at the default level: no bootstrap entry
C14_Witness ==
    \E l \in LoggerIds :
        /\ ret = Returned("init", l, LoggerRef(l))
        /\ FileConfigured(l)
        /\ configs[loggers[l].config].level = logging_INFO
        /\ printed = <<>> /\ logged = <<>>

\* C15: a logger constructed with config.dry_run true puts "[DRY-RUN] " in
\* front of the rendered message of every entry a level method emits, on the
\* console and in the file record; one constructed with dry_run false never
\* does; the prefix is the one of the construction, whatever the config's
\* flag becomes afterwards.
C15_DryRunPrefix ==
    /\ [](ret.op \in LevelMethods /\ printed # <<>> =>
            LET l == ret.logger
                item == LogItem(args.title, args.data, LevelOf(ret.op))
                m == ConsoleMarker(item.level)
                pre == loggers[l].prefix
            IN  /\ pre \in {"", "[DRY-RUN] "}
                /\ printed = <<m[2] \o m[1] \o " " \o pre \o format_console(item)
                                    \o Reset>>
                /\ FileOf(l) # NoPath =>
                      /\ Len(logged) = 1
                      /\ logged[1].message = pre \o format_file(item)
                      /\ FileEndsWith(FileOf(l), logged))
    /\ [][\A l \in LoggerIds :
            ret' = Returned("init", l, LoggerRef(l)) =>
                loggers'[l].prefix = IF configs'[loggers'[l].config].dry_run
                                     THEN "[DRY-RUN] " ELSE ""]_vars
    /\ [][\A l \in LoggerIds :
            (Live(l) /\ Live(l)') => loggers'[l].prefix = loggers[l].prefix]_vars

\* an entry of a logger constructed in dry-run mode, emitted with its prefix
\* to the console and the file after the config's flag was set to false
C15_Witness ==
    \E l \in LoggerIds :
        /\ ret = Returned("info", l, NoneVal)
        /\ ~configs[loggers[l].config].dry_run
        /\ printed = <<" [DRY-RUN] m<RESET>">>
        /\ FileConfigured(l)
        /\ logged[1].message = "[DRY-RUN] m"

\* C17 (as claimed): the log file of a file-backed logger never has more
\* backup generations than the logger's config.log_file_backup_count, and a
\* record that would take the active file past config.log_file_max_bytes is
\* written after a rollover: the file's former lines are backup 1 and the
\* record is the only line of the active file.
C17_RotationFollowsConfig ==
    /\ [](\A l \in LoggerIds :
            FileConfigured(l) =>
                Len(files[FileOf(l)].backups)
                    <= configs[loggers[l].config].log_file_backup_count)
    /\ [][\A l \in LoggerIds :
            (/\ FileConfigured(l)
             /\ ret' = Returned("info", l, NoneVal)
             /\ logged' # <<>>
             /\ tell(files[FileOf(l)].lines) + Len(Line(logged'[1].message)) + 1
                    > configs[loggers[l].config].log_file_max_bytes)
            => /\ files'[FileOf(l)].lines = <<Line(logged'[1].message)>>
               /\ Len(files'[FileOf(l)].backups) >= 1
               /\ files'[FileOf(l)].backups[1] = files[FileOf(l)].lines]_vars

\* C18: the end-of-life cleanup of a logger runs close() and returns
\* normally whatever error flush, close or removeHandler raised at whichever
\* handler step: the logger is gone, no exception leaves __del__, and the
\* statements of close() before the failing one have run.
C18_DelSwallowsCleanupErrors ==
    /\ [](ret.op = "del" => ret = Returned("del", ret.logger, NoneVal))
    /\ [][\A l \in LoggerIds, step \in CleanupSteps, exc \in CleanupErrors :
            DelRaising(l, step, exc) =>
                /\ ret' = Returned("del", l, NoneVal)
                /\ loggers'[l].state = "dead"
                /\ \A h \in LoggerIds :
                      handlers'[h].flushes >= handlers[h].flushes]_vars

\* a logger that died while the flush of its file handler failed: __del__
\* returned, the handler is still open and attached to the channel
C18_Witness ==
    \E l \in LoggerIds :
        /\ ret = Returned("del", l, NoneVal)
        /\ loggers[l].state = "dead"
        /\ handlers[l].state = "open" /\ handlers[l].flushes = 0
        /\ \E n \in Names : InSeq(channels[n], l)

\* the step is a reset(), or an initialize() that replaces a stored logger
ContextLetsGo ==
    /\ ctx # 0
    /\ \/ ret' = Returned("reset", ctx, NoneVal) /\ ctx' = 0
       \/ ret'.op = "initialize" /\ ctx' # ctx

\* C19 (as claimed): reset(), and an initialize() that replaces a stored
\* logger, leave the previously stored logger's handler list and its file
\* handler as they were.
C19_StoredLoggerUntouched ==
    [][ContextLetsGo =>
          /\ loggers'[ctx].handlers = loggers[ctx].handlers
          /\ handlers'[ctx] = handlers[ctx]]_vars

\* C19 (amended): such a call changes no logger but the one it lets go of
\* (and the default one it constructs), and that one either stays exactly as
\* it was, handler list, file handler and channel included, or, when it was
\* not referenced elsewhere, has reached its end of life: its handlers were
\* released by __del__ as close() releases them.
C19_StoredLoggerUntouchedOrFinalized ==
    [][ContextLetsGo =>
          LET old == ctx
          IN  /\ \A k \in LoggerIds \ {old} :
                    Live(k) => loggers'[k] = loggers[k] /\ handlers'[k] = handlers[k]
              /\ \/ /\ loggers'[old] = loggers[old]
                    /\ handlers'[old] = handlers[old]
                    /\ channels'[loggers[old].name] = channels[loggers[old].name]
                 \/ /\ loggers'[old].state = "dead"
                    /\ loggers[old].scope # "in"
                    /\ handlers' = close(old).handlers
                    /\ channels'[loggers[old].name]
                          = close(old).channels[loggers[old].name]]_vars

\* a reset() after which the logger the context stored, still referenced by
\* its creator, is live with its file handler open and attached
C19_Witness ==
    \E l \in LoggerIds :
        /\ ret = Returned("reset", l, NoneVal)
        /\ ctx = 0
        /\ Live(l) /\ loggers[l].handlers = <<l>>
        /\ handlers[l].state = "open"
        /\ InSeq(channels[loggers[l].name], l)

\* the step is a call set(key, value) on the initialized store
SetCalled(key, value) ==
    /\ secret.storage
    /\ ret'.op = "secret.set"
    /\ args' = [NoArgs EXCEPT !.title = key, !.data = StrVal(value)]
    /\ SecretSet(key, value)

\* C20 (as claimed): a key outside the allow-list whose get() is not None
\* keeps its value through every set call; set on such a key raises
\* ValueError and leaves the values and the .env file as they were; set on
\* an absent key or on an allow-listed key returns and get(key) is the value.
C20_ProtectedValueNeverChanges ==
    [][\A key \in Keys, value \in Secrets :
          SetCalled(key, value) =>
              /\ \A k \in Keys :
                    (k \notin secret.allow_overwrite_keys /\ environ[k] # NoneVal)
                        => environ'[k] = environ[k]
              /\ IF environ[key] # NoneVal /\ key \notin secret.allow_overwrite_keys
                 THEN /\ ret' = Raised("secret.set", 0, "ValueError")
                      /\ environ' = environ /\ dotenv' = dotenv
                 ELSE /\ ret' = Returned("secret.set", 0, NoneVal)
                      /\ environ'[key] = StrVal(value)
                      /\ dotenv'[key] = StrVal(value)]_vars

\* the pairs of a returned mapping hold key with that value
Maps(value, key, v) ==
    \E n \in 1..Len(value.kv) : value.kv[n] = <<key, v>>

C22_OneInstanceAfterInitialize ==
    /\ [](/\ secret.made <= 1 /\ secret.instance = secret.made
          /\ ret.op = "secret.get_instance" =>
                IF secret.storage
                THEN ret = Returned("secret.get_instance", 0, SecretRef(1))
                ELSE ret = Raised("secret.get_instance", 0, "RuntimeError")
          /\ (secret.storage /\ ret.op \in {"secret.initialize", "SecretCore"})
                => ret = Returned(ret.op, 0, SecretRef(1)))
    /\ [][(~secret.storage /\ secret'.storage)
             => ret' = Returned("secret.initialize", 0, SecretRef(1))]_vars
    /\ [][secret.storage => secret'.storage /\ secret'.instance = secret.instance]_vars

\* SecretCore() returning the instance that an initialize with allow-list
\* {"A"} has given a dotenv storage
C22_Witness ==
    /\ ret = Returned("SecretCore", 0, SecretRef(1))
    /\ secret.storage
    /\ secret.storage_type = DOTENV
    /\ secret.allow_overwrite_keys = {"A"}

\* C30: SecretCore.initialize takes effect only once: an initialize called
\* when a storage backend exists, whatever its storage_type,
\* allow_overwrite_keys and env_file_path, returns the existing instance and
\* leaves the backend (its .env path, the environment it loaded, the file),
\* the storage type and the allow-overwrite set as they were.
C30_InitializeOnlyOnce ==
    [][(/\ secret.storage
        /\ \E st \in StorageTypes, allow \in SUBSET Keys, p \in EnvFiles :
              SecretInitialize(st, allow, p))
         => /\ secret' = secret
            /\ environ' = environ
            /\ dotenv' = dotenv
            /\ ret' = Returned("secret.initialize", 0, SecretRef(secret.instance))]_vars

\* a later initialize that asked for another storage type, path and
\* allow-list than the ones in effect, after a set had changed the store
C30_Witness ==
    /\ ret = Returned("secret.initialize", 0, SecretRef(1))
    /\ secret.storage
    /\ args.key = StrVal("database") /\ secret.storage_type = DOTENV
    /\ args.title = "b.env" /\ secret.env_file_path = ".env"
    /\ args.data = KeyList({"B"}) /\ secret.allow_overwrite_keys = {"A"}
    /\ environ["A"] = StrVal("x")

\* C29: get(key) and get_all() agree in every reachable state: once the
\* storage exists, every key present in get_all() is mapped there to the
\* value get(key) returns, also when the process environment held another
\* value for the key before the dotenv storage was created.
C29_GetAgreesWithGetAll ==
    secret.storage =>
        \A k \in Keys :
            (\E v \in Secrets : Maps(secret_get_all.value, k, StrVal(v)))
                => Maps(secret_get_all.value, k, secret_get(k).value)

\* C25: every LogConfig that detect_log_config returns, for any argument list
\* (one without --log-level included), can be passed to
\* StructuredLogger(config=...) without error: the constructor returns the
\* logger, whose debug() then works.
C25_DetectedConfigUsable ==
    (ret.op = "init" /\ args.data.t = "list"
        /\ ~detect_log_config(args.data.kv).exit)
        => ret.exc = "None"

\* what a chat call was given: the webhook variable of its space, its
\* payload, the outcome of its HTTP request
UrlOfCall == chat.environ[env_key(args.title)]
NoUrl == UrlOfCall \in {NoneVal, StrVal("")}
HttpRaised == args.key # StrVal("None")

\* C23 as stated: send_message never raises; it returns False without an
\* HTTP request when the webhook variable is missing or empty, False when
\* the HTTP request raises, and True otherwise; send_text_message returns
\* what send_message returned.
C23_SendMessageOutcome ==
    /\ ret.op \in {"send_message", "send_text_message"} =>
          /\ ret.exc = "None"
          /\ NoUrl => ret.value = BoolVal(FALSE) /\ chat.requests = 0
          /\ (~NoUrl /\ HttpRaised) => ret.value = BoolVal(FALSE)
          /\ (~NoUrl /\ ~HttpRaised) => ret.value = BoolVal(TRUE)
    /\ ret.op = "send_text_message" => ret.value = BoolVal(chat.result)

\* C23, amended: True otherwise, except for a payload that cannot be
\* serialised to JSON, for which send_message returns False without an HTTP
\* request.
C23_SendMessageOutcomeSerialisable ==
    /\ ret.op \in {"send_message", "send_text_message"} =>
          /\ ret.exc = "None"
          /\ NoUrl => ret.value = BoolVal(FALSE) /\ chat.requests = 0
          /\ (~NoUrl /\ json_dumps_raises(args.data))
                => ret.value = BoolVal(FALSE) /\ chat.requests = 0
          /\ (~NoUrl /\ ~json_dumps_raises(args.data) /\ HttpRaised)
                => ret.value = BoolVal(FALSE) /\ chat.requests = 1
          /\ (~NoUrl /\ ~json_dumps_raises(args.data) /\ ~HttpRaised)
                => ret.value = BoolVal(TRUE) /\ chat.requests = 1
    /\ ret.op = "send_text_message" => ret.value = BoolVal(chat.result)

\* send_message returning False for a present webhook because the request
\* raised, with the failure on record in the log file
C23_Witness ==
    /\ ret = Returned("send_message", 1, BoolVal(FALSE))
    /\ ~NoUrl /\ HttpRaised /\ ~json_dumps_raises(args.data)
    /\ chat.requests = 1
    /\ Len(logged) = 1

\* C24: every file record a level method emits through a logger that has a
\* log file and is not closed is written to that logger's own config.log_file
\* and to no other file, whatever loggers are alive, two of the same name
\* with different log files included.
C24_RecordsGoToOwnFile ==
    [][\A l \in LoggerIds :
          (/\ ret'.op \in LevelMethods /\ ret'.logger = l
           /\ FileConfigured(l) /\ ~loggers[l].closed
           /\ logged' # <<>>) =>
              /\ \A p \in Paths \ {FileOf(l)} : files'[p] = files[p]
              /\ Len(files'[FileOf(l)].lines) = Len(files[FileOf(l)].lines) + Len(logged')
              /\ \A k \in 1..Len(logged') :
                    files'[FileOf(l)].lines[Len(files[FileOf(l)].lines) + k]
                        = Line(logged'[k].message)]_vars

\* C28: a mapping context with zero entries is treated as absent by both
\* renderings: format_file() returns the message alone, as format_console()
\* does, with no trailing separator.
C28_EmptyMappingIsAbsent ==
    (/\ ret.op \in {"format_console", "format_file"}
     /\ args.data.t = "dict" /\ args.data.kv = <<>>)
        => ret = Returned(ret.op, 0, StrVal(args.title))

\* C26: constructing a StructuredLogger leaves the caller-supplied LogConfig
\* as it was, so that each logger built from one LogConfig object that names
\* no file writes to the log_file_path it was given.
C26_ConfigLeftUnchanged ==
    [][\A l \in LoggerIds, n \in Names, p \in PathArgs, ca \in CallerConfigArgs :
          StructuredLoggerInit(l, n, p, ca) =>
              /\ configs'[IF ca.kind = "shared" THEN ca.ref ELSE l]
                    = config_or_default(ca)
              /\ (p # NoPath /\ config_or_default(ca).log_file = NoPath) =>
                    \A k \in 1..Len(loggers'[l].handlers) :
                        handlers'[loggers'[l].handlers[k]].file = p]_vars

\* C27: within one log call the console rendering and the file rendering of
\* the LogItem show the same key/value entries, those of the context the
\* call was given, a one-shot iterable that the console rendering has
\* already traversed included.
C27_SameEntriesOnConsoleAndFile ==
    (ret.op \in LevelMethods /\ printed # <<>> /\ logged # <<>>) =>
        LET item == LogItem(args.title, args.data, LevelOf(ret.op))
        IN  /\ printed = <<ConsoleLine(ret.logger, item)>>
            /\ logged = <<FileRecord(ret.logger, item)>>

=============================================================================
